---- MODULE Spec2Model ----
(***************************************************************************)
(* Model of the WebP build pipeline of umi-plugin-project:                  *)
(*   - processCssFiles      (stylesheet rewriting, css-processor)           *)
(*   - convertToWebp        (full pass over the output tree)                *)
(*   - webpack-import-loader (per-source-file rewriting of image imports)   *)
(*   - the build-complete hook that drains the temporary files              *)
(* and of ModelUtils.topologicalSort of the model plugin.                   *)
(* Texts are sequences of tokens; every token stands for the characters     *)
(* written in its name, so the regular expressions of the code are          *)
(* evaluated token by token.                                                *)
(***************************************************************************)
EXTENDS Integers, Sequences, FiniteSets, TLC

VARIABLES
    cssText,      \* content of the stylesheet file on disk (token sequence)
    cssInput,     \* content read by the last run of processCssFiles
    cssRefs,      \* imagePathMappings of the last run of processCssFiles
    cssWrites,    \* number of fs.writeFileSync calls on the stylesheet
    cssRuns,      \* number of runs of processCssFiles
    sq,           \* one quality search on its own: policy, image, search state
    isProduction, \* process.env.NODE_ENV === 'production'
    policy,       \* the webpConverter configuration
    imgKind,      \* what every image of the tree is like (never changes)
    srcFile,      \* the source file webpack hands to the loader
    unlinkErr,    \* the paths on which fs.unlinkSync throws (never changes)
    disk,         \* size in bytes of every file, 0 when the file does not exist
    writes,       \* number of fs.writeFileSync calls that wrote each path
    encodes,      \* number of sharp(...).toBuffer() calls made
    processedImagePaths,  \* DedupRegistry
    tempWebpFiles,        \* TempArtifactTracker
    builds,       \* number of calls of the build-complete hooks
    hook,         \* the last hook call: which hook, and the build error it was given
    fp,           \* the full pass: phase, finished passes, run statistics
    task,         \* the conversion task of every image of the output tree
    ld,           \* the running invocation of the loader
    lastIndex,    \* lastIndex of the four module-level import patterns
    loads,        \* number of loader invocations started
    transcodes,   \* conversions the loader began per image since the registry was last cleared
    models,       \* the models handed to ModelUtils.topologicalSort
    topo          \* the call of topologicalSort: graph, in-degrees, queue, error

cssVars == <<cssText, cssInput, cssRefs, cssWrites, cssRuns>>

worldVars == <<isProduction, policy, imgKind, srcFile, unlinkErr>>

fsVars == <<disk, writes, encodes>>

ctxVars == <<processedImagePaths, tempWebpFiles>>

fpVars == <<builds, fp, task, hook>>

ldVars == <<ld, lastIndex, loads, transcodes>>

sortVars == <<models, topo>>

vars == <<cssText, cssInput, cssRefs, cssWrites, cssRuns, sq,
          isProduction, policy, imgKind, srcFile, unlinkErr, disk, writes, encodes,
          processedImagePaths, tempWebpFiles, builds, fp, task, hook,
          ld, lastIndex, loads, transcodes, models, topo>>

(***************************************************************************)
(* Stylesheet text                                                         *)
(***************************************************************************)

\* 0-based character access, as originalContent[i] in the code
Tok(s, p) == s[p + 1]

\* substring(from, to) of JavaScript: positions from .. to-1
Substring(s, from, to) ==
    IF to <= from THEN << >> ELSE SubSeq(s, from + 1, to)

Quotes == {"'", "\""}

\* extensions accepted by \.(jpe?g|png) under the i flag
RasterExts == {".jpg", ".jpeg", ".png", ".JPG"}

\* path stems: characters matched by [^'")]+ before the extension
Stems == {"a", "b", "c", "data:e", "http://h/d", "https://h/d"}

\* tokens that contain an opening parenthesis
OpenParens == {"url(", "fn("}

PropTokens == {"background:", "background-image:"}

Max(S) == CHOOSE x \in S : \A y \in S : y <= x
Min(S) == CHOOSE x \in S : \A y \in S : x <= y

\* ['"]? at position p: the position after the optional quote
SkipQuote(s, p) == IF p < Len(s) /\ Tok(s, p) \in Quotes THEN p + 1 ELSE p

UrlStemPos(s, u) == SkipQuote(s, u + 1)

UrlClosePos(s, u) == SkipQuote(s, UrlStemPos(s, u) + 2)

\* url\(['"]?([^'")]+\.(jpe?g|png))['"]?\) matches at position u
UrlMatchesAt(s, u) ==
    /\ u < Len(s)
    /\ Tok(s, u) = "url("
    /\ UrlStemPos(s, u) + 1 < Len(s)
    /\ Tok(s, UrlStemPos(s, u)) \in Stems
    /\ Tok(s, UrlStemPos(s, u) + 1) \in RasterExts
    /\ UrlClosePos(s, u) < Len(s)
    /\ Tok(s, UrlClosePos(s, u)) = ")"

\* [^;]* started after position i stops before the next ';'
NextSemi(s, i) ==
    Min({j \in (i + 1)..(Len(s) - 1) : Tok(s, j) = ";"} \cup {Len(s)})

\* the url( positions that urlRegex can reach from a property name at i
UrlCandidates(s, i) ==
    {u \in (i + 1)..(NextSemi(s, i) - 1) : UrlMatchesAt(s, u)}

\* urlRegex matches with its first character at position i
UrlRegexMatchesFrom(s, i) ==
    /\ i < Len(s)
    /\ Tok(s, i) \in PropTokens
    /\ UrlCandidates(s, i) # {}

\* one result of urlRegex.exec: [^;]* is greedy, so the last url( is taken
UrlRegexMatch(s, i) ==
    LET u == Max(UrlCandidates(s, i))
    IN  [offset |-> i,
         urlPos |-> u,
         stem   |-> Tok(s, UrlStemPos(s, u)),
         ext    |-> Tok(s, UrlStemPos(s, u) + 1),
         end    |-> UrlClosePos(s, u) + 1]

\* while ((urlMatch = urlRegex.exec(originalContent)) !== null), scanning from offset from
RECURSIVE UrlRegexExecAll(_, _)
UrlRegexExecAll(s, from) ==
    LET starts == {i \in from..(Len(s) - 1) : UrlRegexMatchesFrom(s, i)}
    IN  IF starts = {} THEN << >>
        ELSE LET m == UrlRegexMatch(s, Min(starts))
             IN  <<m>> \o UrlRegexExecAll(s, m.end)

\* the skip condition without the two remote prefixes
IsSkippedPathLocalOnly(stem, ext) ==
    \/ ext = ".webp"
    \/ stem \in {"data:e"}

\* imgPath.startsWith('data:') || startsWith('http://') || startsWith('https://')
IsSkippedPath(stem, ext) ==
    \/ ext = ".webp"
    \/ stem \in {"data:e", "http://h/d", "https://h/d"}

\* while (startPos > 0 && originalContent[startPos] !== '{') startPos--
StartPos(s, offset) ==
    Max({p \in 0..offset : Tok(s, p) = "{"} \cup {0})

\* while (endPos < length && originalContent[endPos] !== '}') endPos++
EndPos(s, offset) ==
    Min({p \in offset..(Len(s) - 1) : Tok(s, p) = "}"} \cup {Len(s)})

CurrentRule(s, offset) ==
    Substring(s, StartPos(s, offset) + 1, EndPos(s, offset))

\* ,(?![^(]*\)) : a comma not followed by [^(]* and a closing parenthesis
CommaOutsideFunctions(rule, k) ==
    /\ Tok(rule, k) = ","
    /\ ~ \E m \in (k + 1)..(Len(rule) - 1) :
            /\ Tok(rule, m) = ")"
            /\ \A j \in (k + 1)..(m - 1) : Tok(rule, j) \notin OpenParens

isMultipleBackground(rule) ==
    \/ Cardinality({p \in 0..(Len(rule) - 1) : Tok(rule, p) = "url("}) > 1
    \/ \E k \in 0..(Len(rule) - 1) : CommaOutsideFunctions(rule, k)

\* selectorStart walks back to the previous '}' or newline
SelectorStart(s, startPos) ==
    Max({p \in 1..startPos : Tok(s, p - 1) \in {"}", "\n"}} \cup {0})

IsSpace(t) == t \in {" ", "\n"}

\* String.prototype.trim
RECURSIVE Trim(_)
Trim(t) ==
    IF t = << >> THEN t
    ELSE IF IsSpace(Head(t)) THEN Trim(Tail(t))
    ELSE IF IsSpace(t[Len(t)]) THEN Trim(SubSeq(t, 1, Len(t) - 1))
    ELSE t

Selector(s, offset) ==
    Trim(Substring(s, SelectorStart(s, StartPos(s, offset)), StartPos(s, offset)))

\* /(?:background|background-image)\s*:/.exec(currentRule)
PropertyPositions(rule) ==
    {p \in 0..(Len(rule) - 1) : Tok(rule, p) \in PropTokens}

\* imgPath.replace(/\.(jpe?g|png)$/i, '.webp')
CssWebpPath(stem, ext) ==
    IF ext \in RasterExts THEN <<stem, ".webp">> ELSE <<stem, ext>>

\* the body of the exec loop for one match: zero or one imagePathMappings entry
MappingsOfMatch(s, m) ==
    IF IsSkippedPath(m.stem, m.ext) THEN << >>
    ELSE IF isMultipleBackground(CurrentRule(s, m.offset)) THEN << >>
    ELSE IF PropertyPositions(CurrentRule(s, m.offset)) = {} THEN << >>
    ELSE << [selector |-> Selector(s, m.offset),
             property |-> Tok(CurrentRule(s, m.offset),
                              Min(PropertyPositions(CurrentRule(s, m.offset)))),
             original |-> <<m.stem, m.ext>>,
             webp     |-> CssWebpPath(m.stem, m.ext),
             urlPos   |-> m.urlPos] >>

RECURSIVE CollectMappings(_, _)
CollectMappings(s, matches) ==
    IF matches = << >> THEN << >>
    ELSE MappingsOfMatch(s, Head(matches)) \o CollectMappings(s, Tail(matches))

ImagePathMappings(s) == CollectMappings(s, UrlRegexExecAll(s, 0))

SupportSelector(v) ==
    IF v = "yes" THEN "html[data-webp-support=\"yes\"]"
    ELSE "html[data-webp-support=\"no\"]"

\* a fallback rule that is always gated on data-webp-support="yes"
FallbackRuleAlwaysYes(v, selector, property, path) ==
    <<SupportSelector("yes"), " ">> \o selector \o <<" ", "{", "\n">>
    \o <<" ", property, " ", "url(", "\"">> \o path \o <<"\"", ")", ";", "\n">>
    \o <<"}", "\n", "\n">>

\* the three cssContent += lines of one fallback rule
FallbackRule(v, selector, property, path) ==
    <<SupportSelector(v), " ">> \o selector \o <<" ", "{", "\n">>
    \o <<" ", property, " ", "url(", "\"">> \o path \o <<"\"", ")", ";", "\n">>
    \o <<"}", "\n", "\n">>

RECURSIVE FallbackRules(_)
FallbackRules(maps) ==
    IF maps = << >> THEN << >>
    ELSE LET m == Head(maps)
         IN  FallbackRule("yes", m.selector, m.property, m.webp)
             \o FallbackRule("no", m.selector, m.property, m.original)
             \o FallbackRules(Tail(maps))

AppendedText(maps) ==
    <<"\n", "\n", "/* WebP */", "\n">> \o FallbackRules(maps)

\* the file is rewritten with the fallback rules alone, and always written
processCssOverwrites(s) ==
    LET maps == ImagePathMappings(s)
    IN  [content |-> IF maps = << >> THEN s ELSE AppendedText(maps),
         refs    |-> maps,
         wrote   |-> TRUE]

\* the body of cssFiles.forEach for one file: read, scan, append, write
processCssFile(s) ==
    LET maps == ImagePathMappings(s)
    IN  [content |-> IF maps = << >> THEN s ELSE s \o AppendedText(maps),
         refs    |-> maps,
         wrote   |-> maps # << >>]

(***************************************************************************)
(* The quality search (the same statements in convertToWebp and in the     *)
(* loader): webpBuffer, webpSize and currentQuality of one image           *)
(***************************************************************************)

\* before the first sharp(...).webp({quality, lossless}).toBuffer()
SearchStart(quality, lossless) ==
    [n            |-> 0,          \* encodes finished
     pendQ        |-> quality,    \* quality of the encode in flight
     pendLossless |-> lossless,   \* lossless flag of the encode in flight
     size         |-> 0,          \* webpSize
     bufQ         |-> 0 - 1,      \* quality that produced webpBuffer
     bufLossless  |-> FALSE,      \* lossless flag that produced webpBuffer
     done         |-> FALSE,
     hist         |-> << >>]      \* every encode made: quality, mode, size

\* the loop goes on one step below minQuality
SearchResultBelowFloor(s, size, orig, quality, minQuality, lossless) ==
    LET next  == s.pendQ - 5
        enter == IF s.n = 0
                 THEN size >= orig /\ ~lossless /\ quality > minQuality
                 ELSE TRUE
        again == /\ enter /\ size >= orig /\ next >= minQuality - 5
                 /\ quality - next <= 5 * ((quality - minQuality) \div 5 + 1)
                 /\ quality - next <= 20
    IN  [n            |-> s.n + 1,
         pendQ        |-> IF again THEN next ELSE 0 - 1,
         pendLossless |-> FALSE,
         size         |-> size,
         bufQ         |-> s.pendQ,
         bufLossless  |-> s.pendLossless,
         done         |-> ~again,
         hist         |-> Append(s.hist, [q |-> s.pendQ,
                                          lossless |-> s.pendLossless,
                                          size |-> size])]

\* the retry condition tests webpSize > originalSize instead of >=
SearchResultStrict(s, size, orig, quality, minQuality, lossless) ==
    LET next  == s.pendQ - 5
        enter == IF s.n = 0
                 THEN size > orig /\ ~lossless /\ quality > minQuality
                 ELSE TRUE
        again == enter /\ size > orig /\ next >= minQuality
    IN  [n            |-> s.n + 1,
         pendQ        |-> IF again THEN next ELSE 0 - 1,
         pendLossless |-> FALSE,
         size         |-> size,
         bufQ         |-> s.pendQ,
         bufLossless  |-> s.pendLossless,
         done         |-> ~again,
         hist         |-> Append(s.hist, [q |-> s.pendQ,
                                          lossless |-> s.pendLossless,
                                          size |-> size])]

\* the statements run when an awaited toBuffer() returns a buffer of `size` bytes:
\* the if (webpSize >= originalSize && !lossless && quality > minQuality)
\* and the while (webpSize >= originalSize && currentQuality >= minQuality)
SearchResult(s, size, orig, quality, minQuality, lossless) ==
    LET next  == s.pendQ - 5
        enter == IF s.n = 0
                 THEN size >= orig /\ ~lossless /\ quality > minQuality
                 ELSE TRUE
        again == enter /\ size >= orig /\ next >= minQuality
    IN  [n            |-> s.n + 1,
         pendQ        |-> IF again THEN next ELSE 0 - 1,
         pendLossless |-> FALSE,
         size         |-> size,
         bufQ         |-> s.pendQ,
         bufLossless  |-> s.pendLossless,
         done         |-> ~again,
         hist         |-> Append(s.hist, [q |-> s.pendQ,
                                          lossless |-> s.pendLossless,
                                          size |-> size])]

\* size in bytes of every original image of the model
ImageSize == 2

\* sizes the codec can return: smaller than, equal to, larger than the original
EncodedSizes == (ImageSize - 1)..(ImageSize + 1)

\* the codec is a function of the image and the quality: profile[k] is the size
\* of the encoding of the image at quality (configured quality - 5 * k)
EncodedSize(profile, quality, q) == profile[(quality - q) \div 5]

\* the qualities of the model lie in QLow..QHigh
QLow == 60

QHigh == 80

\* indexes of the attempts of one search: attempt k encodes at quality - 5 * k
SearchSteps == 0..((QHigh - QLow) \div 5)

(***************************************************************************)
(* Files.  A path is a record: directory segments, base name, extension.   *)
(***************************************************************************)

RasterExtensions == {"jpg", "jpeg", "png"}

\* images of the output tree (distDir); a.jpg and a.png lie in one directory,
\* c.png lies in a directory other than static
DistImages ==
    { [dir |-> <<"static">>, stem |-> "a", ext |-> "jpg"],
      [dir |-> <<"static">>, stem |-> "a", ext |-> "png"],
      [dir |-> << >>, stem |-> "b", ext |-> "png"],
      [dir |-> <<"assets">>, stem |-> "c", ext |-> "png"] }

\* images of the source tree, the ones import statements resolve to
SrcImages ==
    { [dir |-> <<"src">>, stem |-> "x", ext |-> "png"],
      [dir |-> <<"src">>, stem |-> "y", ext |-> "jpg"] }

Images == DistImages \cup SrcImages

\* the compact file takes the path of the image itself
WebpPathSame(p) == p

\* imagePath.replace(/\.(jpg|jpeg|png)$/, '.webp')
WebpPath(p) ==
    IF p.ext \in RasterExtensions THEN [p EXCEPT !.ext = "webp"] ELSE p

Paths == Images \cup {WebpPath(p) : p \in Images}

\* what an image can be like: not on disk, unreadable, rejected by the codec,
\* its compact file not writable, its compact file already there, or healthy
\* with one of four size profiles
ErrorKinds == {"readErr", "codecErr", "writeErr"}

SizeKinds == {"smallNow", "smallLater", "neverEq", "neverBig"}

Kinds == {"absent", "hasWebp"} \cup ErrorKinds \cup SizeKinds

\* size of the encoding of an image of the given kind at every attempt
KindProfile(kind) ==
    [k \in SearchSteps |->
        CASE kind = "smallLater" -> IF k = 0 THEN ImageSize + 1 ELSE ImageSize - 1
          [] kind = "neverEq"    -> ImageSize
          [] kind = "neverBig"   -> ImageSize + 1
          [] OTHER               -> ImageSize - 1]

\* fs.existsSync
existsSync(d, p) == d[p] > 0

\* glob.sync(path.join(distDir, '{static/**/*.{jpg,jpeg,png},*.{jpg,jpeg,png}}'))
Glob(d) ==
    { p \in DistImages :
        /\ existsSync(d, p)
        /\ p.ext \in RasterExtensions
        /\ (p.dir = << >> \/ (Len(p.dir) >= 1 /\ p.dir[1] = "static")) }

(***************************************************************************)
(* convertToWebp: the full pass                                            *)
(***************************************************************************)

MaxBuilds == 2

IdleTask ==
    [pc |-> "none", s |-> SearchStart(0, FALSE), outcome |-> "", wrote |-> FALSE]

IdlePass ==
    [phase |-> "idle", passes |-> 0, files |-> {}, totalFiles |-> 0,
     smallerFiles |-> 0, skippedFiles |-> 0, totalSaved |-> 0]

\* the catch block lets the error escape: the promise of the task rejects
CatchTaskRethrows(t) == [t EXCEPT !.pc = "rejected", !.outcome = "Error"]

\* catch (error) { console.error(...) }: the promise of the task fulfils
CatchTask(t) == [t EXCEPT !.pc = "done", !.outcome = "Error"]

\* the buffer is kept only when it is strictly smaller
ShouldPersistSmallerOnly(webpSize, originalSize, onlySmallerFiles) ==
    webpSize < originalSize

\* if (webpSize < originalSize || !onlySmallerFiles)
ShouldPersist(webpSize, originalSize, onlySmallerFiles) ==
    webpSize < originalSize \/ ~onlySmallerFiles

\* a task from its start to its first await
TaskStart(p, d) ==
    IF imgKind[p] = "readErr" THEN CatchTask(IdleTask)
    ELSE IF existsSync(d, WebpPath(p))
         THEN [IdleTask EXCEPT !.pc = "done", !.outcome = "AlreadyExists"]
         ELSE [IdleTask EXCEPT !.pc = "encode",
                               !.s = SearchStart(policy.quality, policy.lossless)]

\* the first failing unlinkSync ends the whole drain: nothing is deleted
DrainedDiskAborts(d, tracked) ==
    IF tracked \cap unlinkErr # {} THEN d
    ELSE [p \in Paths |-> IF p \in tracked THEN 0 ELSE d[p]]

\* the processFn calls of forEachTempWebpFile: every tracked file that exists
\* is unlinked, a throwing unlinkSync is caught and the loop goes on
DrainedDisk(d, tracked) ==
    [p \in Paths |-> IF p \in tracked /\ p \notin unlinkErr THEN 0 ELSE d[p]]

\* the tracker is drained when it is not empty (tracker and registry are
\* cleared only then), and convertToWebp runs up to the first await of every task
StartFullPass ==
    LET drain == tempWebpFiles # {}
        d     == IF drain THEN DrainedDisk(disk, tempWebpFiles) ELSE disk
        files == Glob(d)
    IN  /\ disk' = d
        /\ tempWebpFiles' = {}
        /\ processedImagePaths' = IF drain THEN {} ELSE processedImagePaths
        /\ transcodes' = IF drain THEN [p \in SrcImages |-> 0] ELSE transcodes
        /\ task' = [p \in DistImages |->
                      IF p \in files THEN TaskStart(p, d) ELSE IdleTask]
        /\ fp' = [IdlePass EXCEPT !.phase = "running",
                                  !.passes = fp.passes,
                                  !.files = files,
                                  !.totalFiles = Cardinality(files)]

NoHook == [name |-> "", err |-> FALSE]

\* a build is over and no full pass is running
BuildIsOver ==
    /\ builds < MaxBuilds
    /\ fp.phase # "running"
    /\ \A l \in DOMAIN ld : ld[l].pc \in {"idle", "returned"}

\* api.onBuildComplete(({ err }) => ...) up to the first await of every task
BuildComplete(err) ==
    /\ BuildIsOver
    /\ builds' = builds + 1
    /\ hook' = [name |-> "onBuildComplete", err |-> err]
    /\ IF err \/ ~isProduction
       THEN UNCHANGED <<fp, task, disk, processedImagePaths, tempWebpFiles, transcodes>>
       ELSE StartFullPass
    /\ UNCHANGED <<cssVars, sq, worldVars, sortVars, writes, encodes, ld, lastIndex, loads>>

\* compiler.hooks.done of WebpackImportWebpPlugin, tapped in production only,
\* up to the first await of every task; err: the compilation has errors
HooksDone(err) ==
    /\ isProduction
    /\ BuildIsOver
    /\ builds' = builds + 1
    /\ hook' = [name |-> "done", err |-> err]
    /\ StartFullPass
    /\ UNCHANGED <<cssVars, sq, worldVars, sortVars, writes, encodes, ld, lastIndex, loads>>

\* smallerFiles++ without totalSaved += savedSize
CountSmallerOnly(f, originalSize, webpSize) ==
    [f EXCEPT !.smallerFiles = @ + 1]

\* smallerFiles++; totalSaved = originalSize - webpSize: the last task to end
\* decides the total
CountSmallerLastWins(f, originalSize, webpSize) ==
    [f EXCEPT !.smallerFiles = @ + 1,
              !.totalSaved = originalSize - webpSize]

\* smallerFiles++; totalSaved += originalSize - webpSize
CountSmaller(f, originalSize, webpSize) ==
    [f EXCEPT !.smallerFiles = @ + 1,
              !.totalSaved = @ + (originalSize - webpSize)]

\* an awaited sharp(...).toBuffer() of the task of image p settles, and the
\* task runs to its next await or to its end
TaskEncoded(p) ==
    /\ fp.phase = "running"
    /\ task[p].pc = "encode"
    /\ encodes' = encodes + 1
    /\ LET t    == task[p]
           size == EncodedSize(KindProfile(imgKind[p]), policy.quality, t.s.pendQ)
           s2   == SearchResult(t.s, size, ImageSize, policy.quality,
                                policy.minQuality, policy.lossless)
           keep == ShouldPersist(s2.size, ImageSize, policy.onlySmallerFiles)
           webpPath == WebpPath(p)
       IN  IF imgKind[p] = "codecErr"
           THEN /\ task' = [task EXCEPT ![p] = CatchTask(t)]
                /\ UNCHANGED <<fp, disk, writes>>
           ELSE IF ~s2.done
           THEN /\ task' = [task EXCEPT ![p] = [t EXCEPT !.s = s2]]
                /\ UNCHANGED <<fp, disk, writes>>
           ELSE IF keep /\ imgKind[p] = "writeErr"
           THEN /\ task' = [task EXCEPT ![p] = CatchTask([t EXCEPT !.s = s2])]
                /\ UNCHANGED <<fp, disk, writes>>
           ELSE IF keep
           THEN /\ disk' = [disk EXCEPT ![webpPath] = s2.size]
                /\ writes' = [writes EXCEPT ![webpPath] = @ + 1]
                /\ task' = [task EXCEPT ![p] =
                              [pc |-> "done", s |-> s2, wrote |-> TRUE,
                               outcome |-> IF s2.size < ImageSize
                                           THEN "Smaller" ELSE "LargerKept"]]
                /\ fp' = IF s2.size < ImageSize
                         THEN CountSmaller(fp, ImageSize, s2.size)
                         ELSE fp
           ELSE /\ task' = [task EXCEPT ![p] =
                              [pc |-> "done", s |-> s2, wrote |-> FALSE,
                               outcome |-> "LargerSkipped"]]
                /\ fp' = [fp EXCEPT !.skippedFiles = @ + 1]
                /\ UNCHANGED <<disk, writes>>
    /\ UNCHANGED <<cssVars, sq, worldVars, sortVars, ctxVars, builds, hook, ldVars>>

\* the continuation runs as soon as one promise has fulfilled
PromiseAny(files, t) == files = {} \/ \E p \in files : t[p].pc = "done"

\* Promise.all(promises) fulfils: every promise of the array has fulfilled
PromiseAll(files, t) == \A p \in files : t[p].pc = "done"

\* Promise.all(promises).then(...): the summary, then processCssFiles
Summary ==
    /\ fp.phase = "running"
    /\ PromiseAll(fp.files, task)
    /\ fp' = [fp EXCEPT !.phase = "summarised", !.passes = @ + 1]
    /\ IF policy.processCss
       THEN LET r == processCssFile(cssText)
            IN  /\ cssInput' = cssText
                /\ cssText' = r.content
                /\ cssRefs' = r.refs
                /\ cssWrites' = cssWrites + (IF r.wrote THEN 1 ELSE 0)
                /\ cssRuns' = cssRuns + 1
       ELSE UNCHANGED cssVars
    /\ UNCHANGED <<sq, worldVars, sortVars, fsVars, ctxVars, builds, hook, task, ldVars>>

(***************************************************************************)
(* webpack-import-loader.  A source file is a sequence of import/require   *)
(* statements; a statement is a record of the pattern that matches it      *)
(* (its index in importPatterns), its variable name, the base name and the *)
(* extension of its path, and the presence of the '!webp' suffix.  Two     *)
(* statements have the same text exactly when they are the same record.    *)
(***************************************************************************)

\* source.slice(0, 500)
PrefixLen == 500

\* length of the shortest text matched by DISABLE_COMMENT_PATTERN
MarkerLen == 33

\* number of entries of importPatterns
NumPatterns == 4

MaxLoads == 2

Loaders == {1, 2}

\* DISABLE_COMMENT_PATTERN.test(source.slice(0, 500)); markerAt is the offset
\* of the comment in the file, -1 when the file has none
isFileDisabled(file) ==
    file.markerAt >= 0 /\ file.markerAt + MarkerLen <= PrefixLen

\* the file-level comment is ignored
SkipOnlyMarkedImports(disabled, hasSkipWebpMark) == hasSkipWebpMark

\* skipWebpConversion: isFileDisabled || hasSkipWebpMark
SkipWebpConversion(disabled, hasSkipWebpMark) == disabled \/ hasSkipWebpMark

\* const quality = options.quality || 85, and the other options
LoaderOptions(opts) ==
    [quality          |-> IF opts.quality = 0 THEN 85 ELSE opts.quality,
     lossless         |-> opts.lossless,
     onlySmallerFiles |-> opts.onlySmallerFiles,
     minQuality       |-> IF opts.minQuality = 0 THEN 70 ELSE opts.minQuality]

\* the statement text is handed back as it was matched
StripMarkKeeps(st) == st

\* match[0].replace(importPath, importPath.replace(/!webp$/, ''))
StripMark(st) == [st EXCEPT !.mark = FALSE]

\* fullMatch.replace(path, path.replace(/\.(jpg|jpeg|png)$/, '.webp'))
ToWebp(st) ==
    IF st.ext \in RasterExtensions THEN [st EXCEPT !.ext = "webp"] ELSE st

\* modifiedSource.replace(fullMatch, newFullMatch): String.prototype.replace
\* with a string pattern replaces the first occurrence of that text
ReplaceFirst(text, old, new) ==
    LET hits == {i \in 1..Len(text) : text[i] = old}
    IN  IF hits = {} THEN text ELSE [text EXCEPT ![Min(hits)] = new]

\* the file a statement's path names
ImageOf(st) == [dir |-> <<"src">>, stem |-> st.stem, ext |-> st.ext]

\* resolveImportPath fulfils: the path names a file that is on disk
Resolves(st, d) == ImageOf(st) \in SrcImages /\ existsSync(d, ImageOf(st))

\* pattern.regex.exec(source) with lastIndex li (counted in statements): the
\* index of the statement matched, 0 for null
Exec(src, pat, li) ==
    LET hits == {i \in (li + 1)..Len(src) : src[i].pat = pat}
    IN  IF hits = {} THEN 0 ELSE Min(hits)

\* the development branch: every matched statement that carries the suffix
\* has it removed from modifiedSource
RECURSIVE DevScan(_, _, _, _)
DevScan(src, out, pat, li) ==
    IF pat > NumPatterns THEN out
    ELSE LET i == Exec(src, pat, li)
         IN  IF i = 0 THEN DevScan(src, out, pat + 1, 0)
             ELSE DevScan(src,
                          IF src[i].mark
                          THEN ReplaceFirst(out, src[i], StripMark(src[i]))
                          ELSE out,
                          pat, i)

\* the for/while loops of processImports up to the next match: the pattern
\* and the statement matched (cur = 0 when the loops are over) and the
\* lastIndex every pattern is left with
RECURSIVE EnterPattern(_, _, _), WhileExec(_, _, _)
EnterPattern(src, pat, li) ==
    IF pat > NumPatterns THEN [pat |-> pat, cur |-> 0, lastIndex |-> li]
    ELSE WhileExec(src, pat, [li EXCEPT ![pat] = 0])

WhileExec(src, pat, li) ==
    LET i == Exec(src, pat, li[pat])
    IN  IF i # 0 THEN [pat |-> pat, cur |-> i, lastIndex |-> [li EXCEPT ![pat] = i]]
        ELSE EnterPattern(src, pat + 1, [li EXCEPT ![pat] = 0])

NoFile == [resource |-> "js", stmts |-> << >>, markerAt |-> 0 - 1]

IdleLoader ==
    [pc |-> "idle", file |-> NoFile, out |-> << >>, res |-> << >>,
     disabled |-> FALSE, pat |-> 0, cur |-> 0, s |-> SearchStart(0, FALSE),
     calls |-> 0, err |-> FALSE]

\* processImports ends without handing the source back to webpack
ProceedSilent(L, m) ==
    IF m.cur = 0
    THEN [L EXCEPT !.pc = "returned", !.pat = m.pat, !.cur = 0]
    ELSE [L EXCEPT !.pc = "resolve", !.pat = m.pat, !.cur = m.cur]

\* processImports goes on to its next await, or to callback(null, modifiedSource)
Proceed(L, m) ==
    IF m.cur = 0
    THEN [L EXCEPT !.pc = "returned", !.pat = m.pat, !.cur = 0, !.calls = @ + 1]
    ELSE [L EXCEPT !.pc = "resolve", !.pat = m.pat, !.cur = m.cur]

\* addTmpWebpFile is undefined and the optional call does nothing
addTmpWebpFileMissing(tracked, filePath) == tracked

\* addTmpWebpFile?.(webpPath): the path joins the tracker unless it is there
addTmpWebpFile(tracked, filePath) == tracked \cup {filePath}

\* the path is not recorded when the conversion begins
RegisterDeferred(registry, imagePath) == registry

\* processedImagePaths.add(imagePath), in the statements that follow
\* processedImagePaths.has(imagePath) without an await in between
Register(registry, imagePath) == registry \cup {imagePath}

\* loader(source) up to its first await
LoaderStart(l) ==
    /\ loads < MaxLoads
    /\ ld[l].pc \in {"idle", "returned"}
    /\ fp.phase # "running"
    /\ loads' = loads + 1
    /\ LET L0 == [IdleLoader EXCEPT
                     !.file = srcFile, !.out = srcFile.stmts,
                     !.res = [i \in 1..Len(srcFile.stmts) |-> ""]]
       IN  IF srcFile.resource # "js"
           THEN /\ ld' = [ld EXCEPT ![l] = [L0 EXCEPT !.pc = "returned", !.calls = 1]]
                /\ UNCHANGED lastIndex
           ELSE IF ~isProduction
           THEN /\ ld' = [ld EXCEPT ![l] =
                            [L0 EXCEPT !.pc = "returned", !.calls = 1,
                                       !.out = DevScan(srcFile.stmts, srcFile.stmts, 1, 0)]]
                /\ lastIndex' = [p \in 1..NumPatterns |-> 0]
           ELSE LET m == EnterPattern(srcFile.stmts, 1, lastIndex)
                IN  /\ ld' = [ld EXCEPT ![l] =
                                Proceed([L0 EXCEPT !.disabled = isFileDisabled(srcFile)], m)]
                    /\ lastIndex' = m.lastIndex
    /\ UNCHANGED <<cssVars, sq, worldVars, sortVars, fsVars, ctxVars, fpVars, transcodes>>

\* the awaited resolveImportPath settles, and processImports runs to its next await
LoaderResolved(l) ==
    /\ ld[l].pc = "resolve"
    /\ LET L    == ld[l]
           st   == L.file.stmts[L.cur]
           img  == ImageOf(st)
           skip == SkipWebpConversion(L.disabled, st.mark)
           stripped == IF st.mark THEN ReplaceFirst(L.out, st, StripMark(st)) ELSE L.out
           m    == WhileExec(L.file.stmts, L.pat, lastIndex)
       IN  IF ~Resolves(st, disk)
           THEN /\ ld' = [ld EXCEPT ![l] =
                            Proceed([L EXCEPT !.out = stripped,
                                              !.res[L.cur] = "ResolveError"], m)]
                /\ lastIndex' = m.lastIndex
                /\ UNCHANGED <<processedImagePaths, transcodes>>
           ELSE IF img \in processedImagePaths
           THEN /\ ld' = [ld EXCEPT ![l] =
                            Proceed([L EXCEPT !.res[L.cur] = "Registered"], m)]
                /\ lastIndex' = m.lastIndex
                /\ UNCHANGED <<processedImagePaths, transcodes>>
           ELSE IF existsSync(disk, img) /\ ~skip
           THEN /\ processedImagePaths' = Register(processedImagePaths, img)
                /\ transcodes' = [transcodes EXCEPT ![img] = @ + 1]
                /\ IF imgKind[img] = "readErr"
                   THEN /\ ld' = [ld EXCEPT ![l] =
                                    Proceed([L EXCEPT !.out = stripped,
                                                      !.res[L.cur] = "Error"], m)]
                        /\ lastIndex' = m.lastIndex
                   ELSE /\ ld' = [ld EXCEPT ![l] =
                                    [L EXCEPT !.pc = "encode",
                                              !.s = SearchStart(LoaderOptions(policy).quality,
                                                                LoaderOptions(policy).lossless)]]
                        /\ UNCHANGED lastIndex
           ELSE /\ ld' = [ld EXCEPT ![l] =
                            Proceed([L EXCEPT !.out = stripped,
                                              !.res[L.cur] = "Skipped"], m)]
                /\ lastIndex' = m.lastIndex
                /\ UNCHANGED <<processedImagePaths, transcodes>>
    /\ UNCHANGED <<cssVars, sq, worldVars, sortVars, fsVars, tempWebpFiles, fpVars, loads>>

\* an awaited sharp(...).toBuffer() settles, and processImports runs to its next await
LoaderEncoded(l) ==
    /\ ld[l].pc = "encode"
    /\ encodes' = encodes + 1
    /\ LET L    == ld[l]
           st   == L.file.stmts[L.cur]
           img  == ImageOf(st)
           opts == LoaderOptions(policy)
           size == EncodedSize(KindProfile(imgKind[img]), opts.quality, L.s.pendQ)
           s2   == SearchResult(L.s, size, ImageSize, opts.quality,
                                opts.minQuality, opts.lossless)
           keep == ShouldPersist(s2.size, ImageSize, opts.onlySmallerFiles)
           webpPath == WebpPath(img)
           m    == WhileExec(L.file.stmts, L.pat, lastIndex)
       IN  IF imgKind[img] = "codecErr"
           THEN /\ ld' = [ld EXCEPT ![l] = Proceed([L EXCEPT !.res[L.cur] = "Error"], m)]
                /\ lastIndex' = m.lastIndex
                /\ UNCHANGED <<disk, writes, tempWebpFiles>>
           ELSE IF ~s2.done
           THEN /\ ld' = [ld EXCEPT ![l] = [L EXCEPT !.s = s2]]
                /\ UNCHANGED <<lastIndex, disk, writes, tempWebpFiles>>
           ELSE IF keep /\ imgKind[img] = "writeErr"
           THEN /\ ld' = [ld EXCEPT ![l] =
                            Proceed([L EXCEPT !.s = s2, !.res[L.cur] = "Error"], m)]
                /\ lastIndex' = m.lastIndex
                /\ UNCHANGED <<disk, writes, tempWebpFiles>>
           ELSE IF keep
           THEN /\ disk' = [disk EXCEPT ![webpPath] = s2.size]
                /\ writes' = [writes EXCEPT ![webpPath] = @ + 1]
                /\ tempWebpFiles' = addTmpWebpFile(tempWebpFiles, webpPath)
                /\ ld' = [ld EXCEPT ![l] =
                            Proceed([L EXCEPT
                                        !.s = s2,
                                        !.out = ReplaceFirst(L.out, st, ToWebp(st)),
                                        !.res[L.cur] = IF s2.size < ImageSize
                                                       THEN "Smaller" ELSE "LargerKept"], m)]
                /\ lastIndex' = m.lastIndex
           ELSE /\ ld' = [ld EXCEPT ![l] =
                            Proceed([L EXCEPT !.s = s2,
                                              !.res[L.cur] = "LargerSkipped"], m)]
                /\ lastIndex' = m.lastIndex
                /\ UNCHANGED <<disk, writes, tempWebpFiles>>
    /\ UNCHANGED <<cssVars, sq, worldVars, sortVars, processedImagePaths, fpVars, loads, transcodes>>

(***************************************************************************)
(* ModelUtils.topologicalSort                                              *)
(***************************************************************************)

MaxModels == 3

MaxDeps == 2

\* property names every object literal inherits from Object.prototype
InheritedKeys == {"constructor"}

Namespaces == {"a", "b", "c"} \cup InheritedKeys

NamespaceRank(ns) ==
    CASE ns = "a" -> 1 [] ns = "b" -> 2 [] ns = "c" -> 3 [] OTHER -> 4

\* Model.deps is spread from a Set: no namespace twice. The order of the deps
\* of one model decides only which of two missing deps the error names, and
\* one order stands for all; the inherited key is tried as a lone dep
DepLists ==
    {d \in UNION {[1..n -> Namespaces] : n \in 0..MaxDeps} :
        \A i, j \in DOMAIN d :
            i < j => /\ NamespaceRank(d[i]) < NamespaceRank(d[j])
                     /\ d[j] \notin InheritedKeys}

ModelLists ==
    UNION {[1..n -> [namespace : Namespaces, deps : DepLists]] : n \in 0..MaxModels}

NoError == [kind |-> "", names |-> << >>]

IdleSort ==
    [pc |-> "idle", in |-> << >>, childs |-> << >>, graph |-> {},
     queue |-> << >>, error |-> NoError]

SortIdle ==
    /\ models = << >>
    /\ topo = IdleSort

\* namespaceToNode[key] once the first upto models are entered: the index of
\* the node, 0 for undefined, -1 for a value inherited from Object.prototype
namespaceToNode(ms, upto, key) ==
    LET own == {j \in 1..upto : ms[j].namespace = key}
    IN  IF own # {} THEN Min(own)
        ELSE IF key \in InheritedKeys THEN 0 - 1
        ELSE 0

\* the first model at which if (namespaceToNode[model.namespace]) is truthy
FirstDuplicate(ms) ==
    LET hits == {i \in 1..Len(ms) : namespaceToNode(ms, i - 1, ms[i].namespace) # 0}
    IN  IF hits = {} THEN 0 ELSE Min(hits)

\* the first <<node, dep>> of the edge loops at which no node comes back
FirstBadEdge(ms) ==
    LET bad == {e \in (1..Len(ms)) \X (1..MaxDeps) :
                   /\ e[2] <= Len(ms[e[1]].deps)
                   /\ namespaceToNode(ms, Len(ms), ms[e[1]].deps[e[2]]) <= 0}
    IN  IF bad = {} THEN <<0, 0>>
        ELSE CHOOSE e \in bad :
                \A f \in bad : e[1] < f[1] \/ (e[1] = f[1] /\ e[2] <= f[2])

\* depNode.childs after the edge loops; a node is pushed once per dep, and
\* its deps are distinct
Childs(ms, j) ==
    {i \in 1..Len(ms) : \E k \in 1..Len(ms[i].deps) : ms[i].deps[k] = ms[j].namespace}

\* the filter finds nothing left
leftNodesNone(graph) == << >>

\* graph.filter(Boolean): the nodes not deleted, in index order
leftNodes(graph) ==
    CHOOSE f \in [1..Cardinality(graph) -> graph] :
        \A i, j \in 1..Cardinality(graph) : i < j => f[i] < f[j]

Thrown(kind, names) ==
    [IdleSort EXCEPT !.pc = "thrown", !.error = [kind |-> kind, names |-> names]]

\* topologicalSort(models) up to its while loop: the graph and its edges
topologicalSort ==
    /\ topo.pc = "idle"
    /\ LET dup == FirstDuplicate(models)
           bad == FirstBadEdge(models)
       IN  topo' =
             IF dup # 0
             THEN Thrown("Duplicate", <<models[dup].namespace>>)
             ELSE IF bad # <<0, 0>>
             THEN LET dep == models[bad[1]].deps[bad[2]]
                  IN  IF namespaceToNode(models, Len(models), dep) = 0
                      THEN Thrown("NotFound", <<dep>>)
                      ELSE Thrown("TypeError", <<dep>>)
             ELSE [IdleSort EXCEPT
                      !.pc = "loop",
                      !.in = [i \in 1..Len(models) |-> Len(models[i].deps)],
                      !.childs = [j \in 1..Len(models) |-> Childs(models, j)],
                      !.graph = 1..Len(models)]
    /\ UNCHANGED <<cssVars, sq, worldVars, fsVars, ctxVars, fpVars, ldVars, models>>

\* one turn of while (true) in which graph.find returns a node
ZeroNode ==
    /\ topo.pc = "loop"
    /\ LET zeros == {i \in topo.graph : topo.in[i] = 0}
       IN  /\ zeros # {}
           /\ LET zeronode == Min(zeros)
              IN  topo' = [topo EXCEPT
                             !.queue = Append(@, models[zeronode].namespace),
                             !.in = [i \in DOMAIN @ |->
                                        IF i \in topo.childs[zeronode]
                                        THEN @[i] - 1 ELSE @[i]],
                             !.childs[zeronode] = {},
                             !.graph = @ \ {zeronode}]
    /\ UNCHANGED <<cssVars, sq, worldVars, fsVars, ctxVars, fpVars, ldVars, models>>

\* graph.find returns undefined: break, then the leftNodes test and the return
Break ==
    /\ topo.pc = "loop"
    /\ {i \in topo.graph : topo.in[i] = 0} = {}
    /\ LET left == leftNodes(topo.graph)
       IN  topo' =
             IF Len(left) > 0
             THEN [topo EXCEPT
                      !.pc = "thrown",
                      !.error = [kind |-> "Circle",
                                 names |-> [i \in 1..Len(left) |->
                                              models[left[i]].namespace]]]
             ELSE [topo EXCEPT !.pc = "returned"]
    /\ UNCHANGED <<cssVars, sq, worldVars, fsVars, ctxVars, fpVars, ldVars, models>>

(***************************************************************************)
(* Input stylesheets                                                       *)
(***************************************************************************)

MaxRules == 2

MaxCssRuns == 1

SelectorNames == <<".a", ".b", ".c", ".d">>

MainDecls ==
    { <<"background:", "red">>,
      <<"background-image:", "url(", "a", ".jpg", ")">>,
      <<"background:", "url(", "a", ".jpg", ")", ",", "url(", "b", ".png", ")">>,
      <<"background:", "url(", "a", ".jpg", ")", ",", "fn(", "red", ",", "red", ")">>,
      <<"color:", "fn(", "red", ",", "red", ")">>,
      <<"background-image:", "url(", "c", ".webp", ")">>,
      <<"background:", "url(", "http://h/d", ".png", ")">>,
      <<"background:", "url(", "https://h/d", ".png", ")">>,
      <<"background:", "url(", "data:e", ".png", ")">> }

LeadDecls ==
    { << >>,
      <<"background:", "red", ";">>,
      <<"color:", "fn(", "red", ",", "red", ")", ";">> }

RuleShapes == [lead : LeadDecls, main : MainDecls, term : BOOLEAN]

RuleText(i, r, nl) ==
    <<SelectorNames[((i - 1) % Len(SelectorNames)) + 1], "{">>
    \o r.lead \o r.main
    \o (IF r.term THEN <<";">> ELSE << >>)
    \o <<"}">>
    \o (IF nl THEN <<"\n">> ELSE << >>)

RECURSIVE SheetText(_, _, _)
SheetText(rules, i, nl) ==
    IF i > Len(rules) THEN << >>
    ELSE RuleText(i, rules[i], nl) \o SheetText(rules, i + 1, nl)

Sheets ==
    { SheetText(rs, 1, nl) :
        rs \in UNION {[1..n -> RuleShapes] : n \in 1..MaxRules}, nl \in BOOLEAN }

(***************************************************************************)
(* Inputs: policies, image trees, source files                             *)
(***************************************************************************)

NoPolicy ==
    [quality |-> 0, minQuality |-> 0, lossless |-> FALSE,
     onlySmallerFiles |-> FALSE, processCss |-> FALSE]

\* { ...defaultCofig, ...options }: every key of the configuration is defined
FullPolicies ==
    [quality : {QHigh}, minQuality : {QHigh - 10, QHigh}, lossless : BOOLEAN,
     onlySmallerFiles : BOOLEAN, processCss : BOOLEAN]

LoadPolicies ==
    [quality : {QHigh}, minQuality : {QHigh - 5}, lossless : {FALSE},
     onlySmallerFiles : BOOLEAN, processCss : {TRUE}]

\* the disk at the start: every image that is not absent, and the compact
\* file of every image that already has one
InitDisk(kinds) ==
    [p \in Paths |->
        IF p \in Images
        THEN IF kinds[p] = "absent" THEN 0 ELSE ImageSize
        ELSE IF \E q \in Images : WebpPath(q) = p /\ kinds[q] = "hasWebp"
             THEN ImageSize - 1 ELSE 0]

\* stylesheets of the output tree in the runs of the full pass
PipelineSheets ==
    { SheetText(<<r>>, 1, FALSE) :
        r \in {x \in RuleShapes :
                 /\ x.lead = << >>
                 /\ x.term
                 /\ x.main \in { <<"background:", "red">>,
                                 <<"background-image:", "url(", "a", ".jpg", ")">> }} }

MaxStmts == 2

Statements ==
    [pat : {1, 3}, var : {"a", "b"}, stem : {"x"}, ext : {"png"}, mark : BOOLEAN]
    \cup [pat : {1, 3}, var : {"a", "b"}, stem : {"y"}, ext : {"jpg"}, mark : BOOLEAN]

\* offsets of the file-level comment: none, ending at character 500, ending
\* one character later
MarkerOffsets == {0 - 1, PrefixLen - MarkerLen, PrefixLen - MarkerLen + 1}

SourceFiles ==
    [resource : {"js"},
     stmts : {ss \in UNION {[1..n -> Statements] : n \in 0..MaxStmts} :
                 Len(ss) >= 1 => ss[1].var = "a"},
     markerAt : MarkerOffsets]
    \cup [resource : {"css", "node_modules"},
          stmts : {<<[pat |-> 1, var |-> "a", stem |-> "x", ext |-> "png", mark |-> TRUE]>>},
          markerAt : {0 - 1}]

(***************************************************************************)
(* Initial states                                                          *)
(***************************************************************************)

SearchIdle ==
    sq = [quality |-> 0, minQuality |-> 0, lossless |-> FALSE, orig |-> 0,
          profile |-> << >>, s |-> SearchStart(0, FALSE)]

CssIdle ==
    /\ cssText = << >>
    /\ cssInput = << >>
    /\ cssRefs = << >>
    /\ cssWrites = 0
    /\ cssRuns = 0

PassIdle ==
    /\ builds = 0
    /\ hook = NoHook
    /\ fp = IdlePass
    /\ task = [p \in DistImages |-> IdleTask]

LoaderIdle ==
    /\ ld = [l \in Loaders |-> IdleLoader]
    /\ lastIndex = [p \in 1..NumPatterns |-> 0]
    /\ loads = 0
    /\ transcodes = [p \in SrcImages |-> 0]

WorldIdle ==
    /\ isProduction = FALSE
    /\ policy = NoPolicy
    /\ imgKind = [p \in Images |-> "absent"]
    /\ srcFile = NoFile
    /\ unlinkErr = {}
    /\ disk = [p \in Paths |-> 0]
    /\ writes = [p \in Paths |-> 0]
    /\ encodes = 0
    /\ processedImagePaths = {}
    /\ tempWebpFiles = {}

CssInit ==
    /\ cssText \in Sheets
    /\ cssInput = cssText
    /\ cssRefs = << >>
    /\ cssWrites = 0
    /\ cssRuns = 0
    /\ SearchIdle /\ WorldIdle /\ PassIdle /\ LoaderIdle /\ SortIdle

\* schema(joi): quality: joi.number().default(85), minQuality: joi.number().default(70)
SchemaAccepts(quality, minQuality) == quality \in Int /\ minQuality \in Int

SearchInit ==
    /\ \E quality \in QLow..QHigh, minQuality \in QLow..QHigh, lossless \in BOOLEAN,
          profile \in [SearchSteps -> EncodedSizes] :
           /\ SchemaAccepts(quality, minQuality)
           /\ sq = [quality |-> quality, minQuality |-> minQuality,
                    lossless |-> lossless, orig |-> ImageSize, profile |-> profile,
                    s |-> SearchStart(quality, lossless)]
    /\ CssIdle /\ WorldIdle /\ PassIdle /\ LoaderIdle /\ SortIdle

\* kinds of the images of the output tree: a.jpg of every kind, b.png of five
\* kinds, a.png absent or healthy
DistKinds ==
    {kinds \in [DistImages -> Kinds] :
        \A p \in DistImages :
            /\ (p.stem = "a" /\ p.ext = "png") => kinds[p] \in {"absent", "smallNow"}
            /\ p.stem = "b" =>
                  kinds[p] \in {"absent", "hasWebp", "readErr", "smallNow", "neverBig"}
            /\ p.stem = "c" => kinds[p] = "smallNow"}

\* a build is over: the output tree holds its images and one stylesheet, and
\* the loader may have left the compact file of a source image behind
FullInit ==
    /\ isProduction \in BOOLEAN
    /\ policy \in FullPolicies
    /\ unlinkErr = {}
    /\ \E kinds \in DistKinds, left \in BOOLEAN :
          LET x == [dir |-> <<"src">>, stem |-> "x", ext |-> "png"]
              k == [p \in Images |-> IF p \in DistImages THEN kinds[p]
                                     ELSE IF p = x THEN "smallNow" ELSE "absent"]
          IN  /\ imgKind = k
              /\ disk = [InitDisk(k) EXCEPT ![WebpPath(x)] =
                            IF left THEN ImageSize - 1 ELSE 0]
              /\ tempWebpFiles = IF left THEN {WebpPath(x)} ELSE {}
              /\ processedImagePaths = IF left THEN {x} ELSE {}
    /\ srcFile = NoFile
    /\ writes = [p \in Paths |-> 0]
    /\ encodes = 0
    /\ cssText \in PipelineSheets
    /\ cssInput = << >>
    /\ cssRefs = << >>
    /\ cssWrites = 0
    /\ cssRuns = 0
    /\ SearchIdle /\ PassIdle /\ LoaderIdle /\ SortIdle

\* what a build can leave of the compact file of a source image: nothing, the
\* file on disk and tracked, a tracked path whose file is gone, a tracked file
\* that cannot be unlinked
LeftKinds == {"none", "onDisk", "missing", "locked"}

DrainPolicies ==
    {pol \in FullPolicies : ~pol.lossless /\ pol.minQuality = pol.quality}

\* a build is over and the tracker holds any mix of paths
DrainInit ==
    /\ isProduction \in BOOLEAN
    /\ policy \in DrainPolicies
    /\ \E kinds \in {k \in [DistImages -> {"absent", "smallNow"}] :
                         \A p \in DistImages : p.stem = "c" => k[p] = "smallNow"},
          left \in [SrcImages -> LeftKinds] :
          LET k == [p \in Images |->
                      IF p \in DistImages THEN kinds[p]
                      ELSE IF left[p] \in {"onDisk", "locked"} THEN "hasWebp"
                      ELSE "smallNow"]
              tracked == {WebpPath(p) : p \in {q \in SrcImages : left[q] # "none"}}
          IN  /\ imgKind = k
              /\ disk = [p \in Paths |->
                           IF \E q \in SrcImages : p = WebpPath(q)
                           THEN IF \E q \in SrcImages :
                                     p = WebpPath(q) /\ left[q] \in {"onDisk", "locked"}
                                THEN ImageSize - 1 ELSE 0
                           ELSE InitDisk(k)[p]]
              /\ tempWebpFiles = tracked
              /\ processedImagePaths = {q \in SrcImages : left[q] # "none"}
              /\ unlinkErr = {WebpPath(p) : p \in {q \in SrcImages : left[q] = "locked"}}
    /\ srcFile = NoFile
    /\ writes = [p \in Paths |-> 0]
    /\ encodes = 0
    /\ cssText \in PipelineSheets
    /\ cssInput = << >>
    /\ cssRefs = << >>
    /\ cssWrites = 0
    /\ cssRuns = 0
    /\ SearchIdle /\ PassIdle /\ LoaderIdle /\ SortIdle

\* modules of a build: no file-level comment, one variable name
BuildFiles ==
    {f \in SourceFiles :
        /\ f.resource = "js"
        /\ f.markerAt < 0
        /\ \A i \in 1..Len(f.stmts) : f.stmts[i].var = "a"}

BuildKinds == {"smallNow", "smallLater", "neverBig", "readErr", "codecErr"}

\* a production compilation starts: nothing converted yet
BuildInit ==
    /\ isProduction = TRUE
    /\ policy \in {pol \in LoadPolicies : pol.onlySmallerFiles}
    /\ \E kx \in BuildKinds :
          imgKind = [p \in Images |->
                        IF p \in DistImages THEN "absent"
                        ELSE IF p.stem = "x" THEN kx ELSE "smallNow"]
    /\ srcFile \in BuildFiles
    /\ unlinkErr = {}
    /\ disk = InitDisk(imgKind)
    /\ writes = [p \in Paths |-> 0]
    /\ encodes = 0
    /\ processedImagePaths = {}
    /\ tempWebpFiles = {}
    /\ SearchIdle /\ CssIdle /\ PassIdle /\ LoaderIdle /\ SortIdle

\* a compilation starts: nothing converted yet
LoadInit ==
    /\ isProduction \in BOOLEAN
    /\ policy \in LoadPolicies
    /\ \E kx \in Kinds :
          imgKind = [p \in Images |->
                        IF p \in DistImages THEN "absent"
                        ELSE IF p.stem = "x" THEN kx ELSE "smallNow"]
    /\ srcFile \in SourceFiles
    /\ unlinkErr = {}
    /\ disk = InitDisk(imgKind)
    /\ writes = [p \in Paths |-> 0]
    /\ encodes = 0
    /\ processedImagePaths = {}
    /\ tempWebpFiles = {}
    /\ SearchIdle /\ CssIdle /\ PassIdle /\ LoaderIdle /\ SortIdle

(***************************************************************************)
(* Steps that run on their own: one quality search, one stylesheet run     *)
(***************************************************************************)

\* an awaited toBuffer() returns
SearchEncoded ==
    /\ ~sq.s.done
    /\ sq' = [sq EXCEPT !.s =
                 SearchResult(sq.s, EncodedSize(sq.profile, sq.quality, sq.s.pendQ),
                              sq.orig, sq.quality, sq.minQuality, sq.lossless)]
    /\ UNCHANGED <<cssVars, worldVars, sortVars, fsVars, ctxVars, fpVars, ldVars>>

\* processCssFiles on the stylesheet file
CssPass ==
    /\ cssRuns < MaxCssRuns
    /\ LET r == processCssFile(cssText)
       IN  /\ cssInput' = cssText
           /\ cssText' = r.content
           /\ cssRefs' = r.refs
           /\ cssWrites' = cssWrites + (IF r.wrote THEN 1 ELSE 0)
    /\ cssRuns' = cssRuns + 1
    /\ UNCHANGED <<sq, worldVars, sortVars, fsVars, ctxVars, fpVars, ldVars>>

(***************************************************************************)
(* Specifications                                                          *)
(***************************************************************************)

SpecCss == CssInit /\ [][CssPass]_vars

SpecSearch == SearchInit /\ [][SearchEncoded]_vars

FullNext ==
    \/ \E err \in BOOLEAN : BuildComplete(err)
    \/ \E err \in BOOLEAN : HooksDone(err)
    \/ \E p \in DistImages : TaskEncoded(p)
    \/ Summary

SpecFull == FullInit /\ [][FullNext]_vars

\* production builds that leave the stylesheets alone
BatchInit ==
    /\ FullInit
    /\ isProduction
    /\ ~policy.processCss

\* every awaited promise settles, and the continuation of a settled promise runs
SpecBatch ==
    /\ BatchInit
    /\ [][FullNext]_vars
    /\ \A p \in DistImages : WF_vars(TaskEncoded(p))
    /\ WF_vars(Summary)

LoadNext ==
    \/ LoaderStart(1)
    \/ LoaderResolved(1)
    \/ LoaderEncoded(1)

SpecLoad == LoadInit /\ [][LoadNext]_vars

\* the search runs to its end: every awaited toBuffer() settles
SpecSearchFair == SpecSearch /\ WF_vars(SearchEncoded)

SpecDrain == DrainInit /\ [][FullNext]_vars

\* webpack runs the loader on several modules at once, then calls the hooks
BuildNext ==
    \/ \E l \in Loaders : LoaderStart(l)
    \/ \E l \in Loaders : LoaderResolved(l)
    \/ \E l \in Loaders : LoaderEncoded(l)
    \/ \E err \in BOOLEAN : BuildComplete(err)
    \/ \E err \in BOOLEAN : HooksDone(err)
    \/ Summary

SpecBuild == BuildInit /\ [][BuildNext]_vars

\* a production compilation of js/ts modules without a file-level comment
ModulesInit ==
    /\ LoadInit
    /\ isProduction
    /\ srcFile.resource = "js"
    /\ srcFile.markerAt < 0

\* webpack runs the loader on several modules at once
ModulesNext ==
    \/ \E l \in Loaders : LoaderStart(l)
    \/ \E l \in Loaders : LoaderResolved(l)
    \/ \E l \in Loaders : LoaderEncoded(l)

SpecModules == ModulesInit /\ [][ModulesNext]_vars

\* a production compilation whose output tree holds static/a.jpg
PipelineInit ==
    /\ isProduction = TRUE
    /\ policy \in LoadPolicies
    /\ \E kx \in BuildKinds, ka \in {"smallNow", "neverBig"} :
          imgKind = [p \in Images |->
                        IF p \in SrcImages THEN (IF p.stem = "x" THEN kx ELSE "smallNow")
                        ELSE IF p.stem = "a" /\ p.ext = "jpg" THEN ka ELSE "absent"]
    /\ srcFile \in BuildFiles
    /\ unlinkErr = {}
    /\ disk = InitDisk(imgKind)
    /\ writes = [p \in Paths |-> 0]
    /\ encodes = 0
    /\ processedImagePaths = {}
    /\ tempWebpFiles = {}
    /\ SearchIdle /\ CssIdle /\ PassIdle /\ LoaderIdle /\ SortIdle

\* the loader runs on the modules, the build-complete hook drains the tracker
\* and starts the full pass, the tasks of the full pass run to their end
PipelineNext ==
    \/ LoaderStart(1)
    \/ LoaderResolved(1)
    \/ LoaderEncoded(1)
    \/ \E err \in BOOLEAN : BuildComplete(err)
    \/ \E err \in BOOLEAN : HooksDone(err)
    \/ \E p \in DistImages : TaskEncoded(p)
    \/ Summary

SpecPipeline == PipelineInit /\ [][PipelineNext]_vars

(***************************************************************************)
(* The two converters on the same image and the same configuration         *)
(***************************************************************************)

\* configured values of quality and minQuality, 0 among them
ConfiguredQualities == {0, 70, 80}

\* an image as the codec sees it: smaller than the original at the qualities
\* up to `small`, of size `large` above
CodecImages == [small : {0 - 5, 0, 65, 70, 75, 80, 85}, large : {ImageSize, ImageSize + 1}]

\* sharp(imageBuffer).webp({ quality }).toBuffer().length
Codec(img, q) == IF q <= img.small THEN ImageSize - 1 ELSE img.large

\* const { quality = 85, lossless = false, onlySmallerFiles = true,
\* minQuality = 70 } = options: a default replaces an undefined value only
ConvertOptions(opts) ==
    [quality          |-> opts.quality,
     lossless         |-> opts.lossless,
     onlySmallerFiles |-> opts.onlySmallerFiles,
     minQuality       |-> opts.minQuality]

\* one configuration and one image, before either converter encodes: s is the
\* search of convertToWebp, t the search of the loader
PolicyInit ==
    /\ \E quality \in ConfiguredQualities, minQuality \in ConfiguredQualities,
          lossless \in BOOLEAN, onlySmallerFiles \in BOOLEAN, img \in CodecImages :
           LET opts == [quality |-> quality, minQuality |-> minQuality,
                        lossless |-> lossless, onlySmallerFiles |-> onlySmallerFiles]
           IN  sq = [quality |-> quality, minQuality |-> minQuality,
                     lossless |-> lossless, onlySmallerFiles |-> onlySmallerFiles,
                     orig |-> ImageSize, img |-> img,
                     s |-> SearchStart(ConvertOptions(opts).quality,
                                       ConvertOptions(opts).lossless),
                     t |-> SearchStart(LoaderOptions(opts).quality,
                                       LoaderOptions(opts).lossless)]
    /\ CssIdle /\ WorldIdle /\ PassIdle /\ LoaderIdle /\ SortIdle

\* an awaited toBuffer() of convertToWebp returns
ConvertEncoded ==
    /\ ~sq.s.done
    /\ LET o == ConvertOptions(sq)
       IN  sq' = [sq EXCEPT !.s = SearchResult(sq.s, Codec(sq.img, sq.s.pendQ), sq.orig,
                                                o.quality, o.minQuality, o.lossless)]
    /\ UNCHANGED <<cssVars, worldVars, sortVars, fsVars, ctxVars, fpVars, ldVars>>

\* an awaited toBuffer() of the loader returns
LoaderSearchEncoded ==
    /\ ~sq.t.done
    /\ LET o == LoaderOptions(sq)
       IN  sq' = [sq EXCEPT !.t = SearchResult(sq.t, Codec(sq.img, sq.t.pendQ), sq.orig,
                                                o.quality, o.minQuality, o.lossless)]
    /\ UNCHANGED <<cssVars, worldVars, sortVars, fsVars, ctxVars, fpVars, ldVars>>

SpecPolicy == PolicyInit /\ [][ConvertEncoded \/ LoaderSearchEncoded]_vars

\* every awaited promise of the loader settles
SpecLoadFair ==
    /\ SpecLoad
    /\ WF_vars(LoaderResolved(1))
    /\ WF_vars(LoaderEncoded(1))

SortInit ==
    /\ models \in ModelLists
    /\ topo = IdleSort
    /\ SearchIdle /\ CssIdle /\ WorldIdle /\ PassIdle /\ LoaderIdle

SortNext ==
    \/ topologicalSort
    \/ ZeroNode
    \/ Break

SpecSort == SortInit /\ [][SortNext]_vars

\* the call runs on: every turn of the loop is taken
SpecSortFair ==
    /\ SpecSort
    /\ WF_vars(topologicalSort)
    /\ WF_vars(ZeroNode)
    /\ WF_vars(Break)

(***************************************************************************)
(* Properties of the quality search                                        *)
(***************************************************************************)

\* the qualities quality, quality-5, quality-10, ... that are >= minQuality
SearchQualities(quality, minQuality) ==
    {q \in minQuality..quality : (quality - q) % 5 = 0}

ShrinkingQualities ==
    {q \in SearchQualities(sq.quality, sq.minQuality) :
        EncodedSize(sq.profile, sq.quality, q) < sq.orig}

\* C1: with lossless = false and quality > minQuality the buffer kept at the end
\* of the search is the encoding at the highest quality of the sequence
\* quality, quality-5, ... (>= minQuality) that is strictly smaller than the
\* original, and the encoding at the lowest quality of the sequence when none is.
C1_QualitySearchResult ==
    (sq.s.done /\ ~sq.lossless /\ sq.quality > sq.minQuality) =>
        /\ ~sq.s.bufLossless
        /\ sq.s.size = EncodedSize(sq.profile, sq.quality, sq.s.bufQ)
        /\ sq.s.bufQ =
              IF ShrinkingQualities # {}
              THEN Max(ShrinkingQualities)
              ELSE Min(SearchQualities(sq.quality, sq.minQuality))

\* quality 80, minQuality 60, not smaller at 80 and at 75, smaller at 70:
\* three encodes, accepted quality 70, smaller than the original
C1_Witness ==
    /\ sq.quality = 80 /\ sq.minQuality = 60 /\ ~sq.lossless
    /\ sq.profile[0] > sq.orig /\ sq.profile[1] > sq.orig /\ sq.profile[2] < sq.orig
    /\ sq.s.done
    /\ sq.s.n = 3
    /\ sq.s.bufQ = 70
    /\ sq.s.size < sq.orig

\* encode calls made or in flight
EncodeCalls == sq.s.n + (IF sq.s.done THEN 0 ELSE 1)

\* ceil(n / 5) for n >= 0
CeilDiv5(n) == (n + 4) \div 5

\* C18: the search always ends, and with minQuality <= quality it never makes
\* more than ceil((quality - minQuality) / 5) + 1 encode calls, whatever sizes
\* the codec returns.
C18_SearchTerminatesWithinBound ==
    /\ [](sq.minQuality <= sq.quality =>
             EncodeCalls <= CeilDiv5(sq.quality - sq.minQuality) + 1)
    /\ <>(sq.s.done)

\* a lossy search that went all the way down: quality - minQuality is a
\* multiple of 5 and the number of encodes is (quality - minQuality) / 5 + 1
C18_Witness ==
    /\ sq.s.done
    /\ ~sq.lossless
    /\ sq.quality - sq.minQuality = 20
    /\ sq.s.n = CeilDiv5(sq.quality - sq.minQuality) + 1
    /\ sq.s.bufQ = sq.minQuality

\* C19: a search makes exactly one encode call when lossless is true, when
\* quality <= minQuality, or when the first result is smaller than the
\* original; no encode call is made at a quality below minQuality, and every
\* retry is lossy.
C19_SingleEncodeAndFloor ==
    /\ (sq.s.n >= 1 /\ (sq.lossless \/ sq.quality <= sq.minQuality
                                     \/ sq.s.hist[1].size < sq.orig)) =>
          (sq.s.n = 1 /\ sq.s.done)
    /\ \A i \in 1..Len(sq.s.hist) : sq.s.hist[i].q >= sq.minQuality
    /\ \A i \in 2..Len(sq.s.hist) : ~sq.s.hist[i].lossless

(***************************************************************************)
(* Properties of the stylesheet rewriter                                   *)
(***************************************************************************)

\* the rule block that contains position u: from the '{' before it to the '}' after it
BlockOf(s, u) == Substring(s, StartPos(s, u) + 1, EndPos(s, u))

UrlCount(rule) == Cardinality({p \in 0..(Len(rule) - 1) : Tok(rule, p) = "url("})

\* number of parentheses open at position k of rule
ParenDepth(rule, k) ==
    Cardinality({p \in 0..(k - 1) : Tok(rule, p) \in OpenParens})
    - Cardinality({p \in 0..(k - 1) : Tok(rule, p) = ")"})

TopLevelComma(rule) ==
    \E k \in 0..(Len(rule) - 1) : Tok(rule, k) = "," /\ ParenDepth(rule, k) = 0

IsMultiBackgroundBlock(rule) == UrlCount(rule) >= 2 \/ TopLevelComma(rule)

\* C3: no recorded reference (hence no appended fallback rule) comes from a
\* url() lying in a rule block that contains two or more url( occurrences or a
\* comma outside any function-call parentheses.
C3_NeverRecordsMultiBackground ==
    \A i \in 1..Len(cssRefs) :
        ~ IsMultiBackgroundBlock(BlockOf(cssInput, cssRefs[i].urlPos))

\* C4: a run of the rewriter leaves the complete input text as a prefix of the
\* output text, and it writes the stylesheet file exactly when it recorded a
\* reference: without a recorded reference the file is not written.
C4_StrictlyAdditive ==
    [][cssRuns' # cssRuns =>
        /\ Len(cssText') >= Len(cssText)
        /\ SubSeq(cssText', 1, Len(cssText)) = cssText
        /\ (cssWrites' # cssWrites) <=> (cssRefs' # << >>)
        /\ (cssWrites' = cssWrites) => (cssText' = cssText)]_vars

C4_Witness ==
    /\ cssRuns > 0
    /\ cssRefs # << >>
    /\ Len(cssText) > Len(cssInput)


(***************************************************************************)
(* Properties of the full pass                                             *)
(***************************************************************************)

SearchedOutcomes == {"Smaller", "LargerKept", "LargerSkipped"}

\* no other image of the current pass has the same compact path
OwnsWebpPath(p) ==
    \A q \in fp.files : q # p => WebpPath(q) # WebpPath(p)

\* C2: a conversion task whose quality search ended without an error wrote
\* the compact file if and only if the final size is smaller than the original
\* or onlySmallerFiles is false: a not-smaller result is skipped, not written
\* and counted as skipped when onlySmallerFiles is true, and written
\* (LargerKept) when it is false.  What is on disk at the compact path is
\* stated for the images that do not share their compact path.
C2_WritesIffSmallerOrKeepAll ==
    /\ \A p \in DistImages :
          (task[p].pc = "done" /\ task[p].s.done /\ task[p].outcome # "Error") =>
             /\ task[p].outcome \in SearchedOutcomes
             /\ task[p].wrote <=>
                   (task[p].s.size < ImageSize \/ ~policy.onlySmallerFiles)
             /\ task[p].wrote =>
                   /\ writes[WebpPath(p)] >= 1
                   /\ existsSync(disk, WebpPath(p))
                   /\ OwnsWebpPath(p) => disk[WebpPath(p)] = task[p].s.size
             /\ (task[p].s.size >= ImageSize /\ policy.onlySmallerFiles) =>
                   /\ task[p].outcome = "LargerSkipped"
                   /\ ~task[p].wrote
                   /\ OwnsWebpPath(p) =>
                         /\ writes[WebpPath(p)] = 0
                         /\ ~existsSync(disk, WebpPath(p))
             /\ (task[p].s.size >= ImageSize /\ ~policy.onlySmallerFiles) =>
                   task[p].outcome = "LargerKept"
    /\ fp.skippedFiles =
          Cardinality({p \in DistImages : task[p].outcome = "LargerSkipped"})

\* a pass over two images: one exhausted its search down to minQuality without
\* shrinking and was skipped, the other shrank and was written
C2_Witness ==
    /\ fp.phase = "summarised"
    /\ policy.onlySmallerFiles
    /\ \E p \in DistImages, q \in DistImages :
          /\ task[p].outcome = "LargerSkipped"
          /\ task[p].s.n >= 2
          /\ task[p].s.bufQ = policy.minQuality
          /\ ~task[p].wrote
          /\ fp.skippedFiles = 1
          /\ task[q].outcome = "Smaller"
          /\ task[q].wrote

\* C5: once a full pass (image conversion, then stylesheet rewriting) has
\* finished, a second full pass over the tree it left performs no write: no
\* compact image is written and the stylesheet file is not modified.
C5_SecondPassWritesNothing ==
    [][fp.passes >= 1 =>
        /\ writes' = writes
        /\ cssWrites' = cssWrites
        /\ cssText' = cssText]_vars

\* C6: when the conversion of one discovered image raises a read, codec or
\* write error, every discovered image still gets its own outcome (a healthy
\* image a non-error one) and the run reaches its summary.
C6_ErrorDoesNotAbortBatch ==
    (fp.phase = "running" /\ \E p \in fp.files : task[p].outcome = "Error")
    ~> /\ fp.phase = "summarised"
       /\ \A q \in fp.files :
             /\ task[q].pc = "done"
             /\ task[q].outcome \in SearchedOutcomes \cup {"AlreadyExists", "Error"}
             /\ imgKind[q] \in SizeKinds \cup {"hasWebp"} => task[q].outcome # "Error"

\* a summarised pass in which one image failed and the other was converted
C6_Witness ==
    /\ fp.phase = "summarised"
    /\ \E p \in DistImages, q \in DistImages :
          /\ task[p].outcome = "Error"
          /\ task[q].outcome = "Smaller"
          /\ existsSync(disk, WebpPath(q))

(***************************************************************************)
(* Properties of the loader                                                *)
(***************************************************************************)

\* the loader has handed a source text back for a js/ts file
Emitted(l) ==
    ld[l].pc = "returned" /\ ld[l].file.resource = "js" /\ ~ld[l].err

Converted == {"Smaller", "LargerKept", "LargerSkipped", "Error"}

\* C7: a statement carrying the '!webp' suffix is never converted and, after
\* the loader returns, still references its original raster path, whatever
\* other statements the file contains.
C7_MarkedNeverCompact ==
    Emitted(1) =>
        \A i \in 1..Len(ld[1].file.stmts) :
            ld[1].file.stmts[i].mark =>
                /\ ld[1].res[i] \notin Converted
                /\ ld[1].out[i].stem = ld[1].file.stmts[i].stem
                /\ ld[1].out[i].ext = ld[1].file.stmts[i].ext

\* C8: every matched statement that carries the '!webp' suffix is emitted
\* without it, in development and in production mode, also when its resolved
\* image is already in the registry.
C8_MarkerAlwaysStripped ==
    Emitted(1) =>
        \A i \in 1..Len(ld[1].file.stmts) :
            ld[1].file.stmts[i].mark => ~ld[1].out[i].mark

\* C9: in production mode, when the file-level comment lies within the first
\* 500 characters of the source file, no step of the loader encodes, writes a
\* file, adds to the registry or to the tracker, and no statement of the file
\* is emitted with the compact extension.
C9_FileOptOut ==
    [][(isProduction /\ srcFile.markerAt >= 0 /\ srcFile.markerAt + MarkerLen <= 500) =>
        /\ encodes' = encodes
        /\ writes' = writes
        /\ disk' = disk
        /\ processedImagePaths' = processedImagePaths
        /\ tempWebpFiles' = tempWebpFiles
        /\ \A i \in 1..Len(ld'[1].out) : ld'[1].out[i].ext # "webp"]_vars

\* an opted-out file with an unmarked import of a healthy image has been
\* returned: the import was resolved and skipped
C9_Witness ==
    /\ isProduction
    /\ srcFile.markerAt >= 0 /\ srcFile.markerAt + MarkerLen <= 500
    /\ Emitted(1)
    /\ encodes = 0
    /\ \E i \in 1..Len(ld[1].file.stmts) :
          /\ ~ld[1].file.stmts[i].mark
          /\ imgKind[ImageOf(ld[1].file.stmts[i])] = "smallNow"
          /\ ld[1].res[i] = "Skipped"
          /\ ld[1].out[i] = ld[1].file.stmts[i]

\* C10: in production mode, when the loader returns, a statement points at the
\* compact path only if the compact file of its image is on disk, it does so
\* whenever its conversion ended Smaller or LargerKept, and it keeps the
\* original path when the conversion ended LargerSkipped or with an error.
C10_CompactOnlyWhenPersisted ==
    (isProduction /\ Emitted(1)) =>
        \A i \in 1..Len(ld[1].file.stmts) :
            LET st == ld[1].file.stmts[i]
            IN  /\ ld[1].out[i].ext = "webp" => existsSync(disk, WebpPath(ImageOf(st)))
                /\ ld[1].res[i] \in {"Smaller", "LargerKept"} =>
                      ld[1].out[i].ext = "webp"
                /\ ld[1].res[i] \in {"LargerSkipped", "Error", "ResolveError"} =>
                      ld[1].out[i].ext = st.ext

\* C11: in production mode, a statement whose image is already in the
\* registry is not converted again, and when it is not opted out and the
\* compact file of its image is on disk it is emitted with the compact path,
\* like every other statement that references the image.
C11_RegistryHitRewrites ==
    (isProduction /\ Emitted(1)) =>
        \A i \in 1..Len(ld[1].file.stmts) :
            LET st == ld[1].file.stmts[i]
            IN  (/\ ld[1].res[i] = "Registered"
                 /\ ~SkipWebpConversion(ld[1].disabled, st.mark)
                 /\ existsSync(disk, WebpPath(ImageOf(st))))
                => ld[1].out[i].ext = "webp"

(***************************************************************************)
(* Properties of a build: concurrent loader invocations, then the hooks    *)
(***************************************************************************)

\* C12: between two clears of the registry the loader begins the conversion
\* of each resolved image at most once, whatever the interleaving of the
\* loader invocations that share the registry.
C12_TranscodedAtMostOnce ==
    \A p \in SrcImages : transcodes[p] <= 1

\* two invocations run at once on the same image: one is waiting for the
\* codec, the other found the image in the registry and went on
C12_Witness ==
    \E l1 \in Loaders, l2 \in Loaders :
        /\ l1 # l2
        /\ ld[l1].pc = "encode"
        /\ ld[l2].pc \in {"resolve", "encode"}
        /\ \E i \in 1..Len(ld[l2].file.stmts) :
              /\ ld[l2].res[i] = "Registered"
              /\ ImageOf(ld[l2].file.stmts[i]) = ImageOf(ld[l1].file.stmts[ld[l1].cur])
              /\ transcodes[ImageOf(ld[l2].file.stmts[i])] = 1

\* compact files the loader can create: those of the source images
LoaderWebpPaths == {WebpPath(p) : p \in SrcImages}

\* C13: every compact file the loader writes is in the tracker once the
\* write is done, and when a full pass begins no compact file written by the
\* loader is on disk (a file whose unlinking fails excepted).
C13_LoaderFilesTrackedAndDrained ==
    [][/\ \A p \in LoaderWebpPaths :
             writes'[p] > writes[p] => p \in tempWebpFiles'
       /\ (fp.phase # "running" /\ fp'.phase = "running") =>
             \A p \in LoaderWebpPaths :
                 (writes[p] > 0 /\ p \notin unlinkErr) => ~existsSync(disk', p)]_vars

\* a full pass runs after a build in which the loader wrote a compact file:
\* the file is gone and the tracker is empty
C13_Witness ==
    /\ fp.phase = "running"
    /\ tempWebpFiles = {}
    /\ \E p \in LoaderWebpPaths : writes[p] > 0 /\ ~existsSync(disk, p)

(***************************************************************************)
(* Properties of the hooks that start the full pass                        *)
(***************************************************************************)

\* C14: a drain of the tracker deletes every tracked file that is on disk and
\* can be unlinked, leaves the tracker empty and is followed by the full pass,
\* also when a tracked path is missing from disk or its unlinking fails.
C14_DrainDeletesAndGoesOn ==
    [][(tempWebpFiles # {} /\ tempWebpFiles' # tempWebpFiles) =>
          /\ tempWebpFiles' = {}
          /\ \A p \in tempWebpFiles :
                p \notin unlinkErr => ~existsSync(disk', p)
          /\ \A p \in Paths \ tempWebpFiles : disk'[p] = disk[p]
          /\ fp'.phase = "running"
          /\ fp'.files = Glob(disk')]_vars

\* the tracker held a file that could not be unlinked and a file that could:
\* the first is still on disk, the second is gone, the full pass has started
C14_Witness ==
    /\ fp.phase = "running"
    /\ tempWebpFiles = {}
    /\ \E p \in SrcImages, q \in SrcImages :
          /\ WebpPath(p) \in unlinkErr
          /\ existsSync(disk, WebpPath(p))
          /\ imgKind[q] = "hasWebp"
          /\ WebpPath(q) \notin unlinkErr
          /\ ~existsSync(disk, WebpPath(q))

\* C15: every step that starts a full pass leaves the registry empty, also
\* when the tracker is empty, and no other step removes a path from the
\* registry.
C15_RegistryClearedAtEveryPass ==
    [][/\ (fp.phase # "running" /\ fp'.phase = "running") =>
             processedImagePaths' = {}
       /\ ~(processedImagePaths \subseteq processedImagePaths') =>
             (fp.phase # "running" /\ fp'.phase = "running")]_vars

\* C16: a build-complete hook that runs after a failed build, or outside
\* production mode, starts no full pass: it deletes no file, starts no task,
\* converts nothing, rewrites no stylesheet and leaves tracker and registry alone.
C16_NoPassAfterFailedBuild ==
    [][(builds' # builds /\ (hook'.err \/ ~isProduction))
       => UNCHANGED <<disk, writes, encodes, fp, task, tempWebpFiles,
                      processedImagePaths, cssVars>>]_vars

\* C17: in one full pass no compact path is written by two conversion tasks,
\* also when two discovered images share directory and base name.
C17_CompactPathWrittenOnce ==
    \A p \in DistImages, q \in DistImages :
        (p # q /\ task[p].wrote /\ task[q].wrote) => WebpPath(p) # WebpPath(q)

(***************************************************************************)
(* Properties of the statistics of the full pass                           *)
(***************************************************************************)

\* images of the current pass whose conversion ended with a compact file
\* strictly smaller than the original
SmallerImages == {p \in fp.files : task[p].outcome = "Smaller"}

RECURSIVE SavedBytes(_)
SavedBytes(S) ==
    IF S = {} THEN 0
    ELSE LET p == CHOOSE x \in S : TRUE
         IN  (ImageSize - task[p].s.size) + SavedBytes(S \ {p})

\* C20: smallerFiles is the number of images whose conversion ended with a
\* compact file strictly smaller than the original, totalSaved is the sum of
\* originalSize - compactSize over exactly those images, and an image with
\* any other outcome adds to neither.
C20_SmallerCountAndSavedBytes ==
    /\ \A p \in fp.files :
          task[p].outcome = "Smaller" <=>
             /\ task[p].pc = "done" /\ task[p].s.done
             /\ task[p].s.size < ImageSize
             /\ imgKind[p] # "writeErr"
    /\ fp.smallerFiles = Cardinality(SmallerImages)
    /\ fp.totalSaved = SavedBytes(SmallerImages)

\* a summarised pass: two images got smaller, a third one was kept although
\* it is not smaller, and the counters show the two
C20_Witness ==
    /\ fp.phase = "summarised"
    /\ Cardinality(SmallerImages) = 2
    /\ fp.smallerFiles = 2
    /\ fp.totalSaved = 2
    /\ \E p \in fp.files : task[p].outcome = "LargerKept"

\* the search of one image run to its end
RECURSIVE FinishSearch(_, _)
FinishSearch(kind, s) ==
    IF s.done THEN s
    ELSE FinishSearch(kind,
            SearchResult(s, EncodedSize(KindProfile(kind), policy.quality, s.pendQ),
                         ImageSize, policy.quality, policy.minQuality, policy.lossless))

\* what one discovered image of the given kind adds to the statistics of a
\* pass, webpExists telling whether its compact file is there when the pass starts
Contribution(kind, webpExists) ==
    LET none == [totalFiles |-> 1, smallerFiles |-> 0, skippedFiles |-> 0, totalSaved |-> 0]
        s    == FinishSearch(kind, SearchStart(policy.quality, policy.lossless))
    IN  IF kind = "readErr" \/ webpExists \/ kind = "codecErr" THEN none
        ELSE IF ~ShouldPersist(s.size, ImageSize, policy.onlySmallerFiles)
             THEN [none EXCEPT !.skippedFiles = 1]
        ELSE IF kind = "writeErr" \/ s.size >= ImageSize THEN none
        ELSE [none EXCEPT !.smallerFiles = 1, !.totalSaved = ImageSize - s.size]

\* the four numbers the summary prints
SummaryOf(f) ==
    [totalFiles |-> f.totalFiles, smallerFiles |-> f.smallerFiles,
     skippedFiles |-> f.skippedFiles, totalSaved |-> f.totalSaved]

RECURSIVE ExpectedSummary(_, _)
ExpectedSummary(kinds, S) ==
    IF S = {} THEN [totalFiles |-> 0, smallerFiles |-> 0, skippedFiles |-> 0, totalSaved |-> 0]
    ELSE LET p == CHOOSE x \in S : TRUE
             c == Contribution(kinds[p],
                               \E q \in DistImages :
                                   WebpPath(q) = WebpPath(p) /\ kinds[q] = "hasWebp")
             r == ExpectedSummary(kinds, S \ {p})
         IN  [totalFiles   |-> r.totalFiles + c.totalFiles,
              smallerFiles |-> r.smallerFiles + c.smallerFiles,
              skippedFiles |-> r.skippedFiles + c.skippedFiles,
              totalSaved   |-> r.totalSaved + c.totalSaved]

\* the statistics of the first pass are the sum of the contributions
FirstSummaryIsExpected ==
    (fp.phase = "summarised" /\ fp.passes = 1) =>
        SummaryOf(fp) = ExpectedSummary(imgKind, fp.files)

\* C21: the summary of a pass in which the conversion of an image raised an
\* error differs from the summary the same pass has when that image is
\* healthy, whatever its encoded sizes: the failure shows in the statistics.
C21_FailureShowsInSummary ==
    (fp.phase = "summarised" /\ fp.passes = 1) =>
        \A p \in fp.files :
            task[p].outcome = "Error" =>
                \A k \in SizeKinds :
                    SummaryOf(fp) # ExpectedSummary([imgKind EXCEPT ![p] = k], fp.files)

(***************************************************************************)
(* The rules appended to a stylesheet                                      *)
(***************************************************************************)

\* the text the last run added after the text it read
Appended == SubSeq(cssText, Len(cssInput) + 1, Len(cssText))

AppendedRules == SubSeq(Appended, 5, Len(Appended))

\* positions of the tokens that open a rule of the appended text
GatePositions(gate) == {i \in 1..Len(AppendedRules) : AppendedRules[i] = gate}

\* the rule `gate selector { property: url("path"); }` as it is written
GatedRule(gate, selector, property, path) ==
    <<gate, " ">> \o selector
    \o <<" ", "{", "\n", " ", property, " ", "url(", "\"", path[1], path[2], "\"", ")", ";", "\n", "}", "\n", "\n">>

RECURSIVE ExpectedPairs(_)
ExpectedPairs(refs) ==
    IF refs = << >> THEN << >>
    ELSE GatedRule("html[data-webp-support=\"yes\"]", Head(refs).selector,
                   Head(refs).property, <<Head(refs).original[1], ".webp">>)
         \o GatedRule("html[data-webp-support=\"no\"]", Head(refs).selector,
                      Head(refs).property, Head(refs).original)
         \o ExpectedPairs(Tail(refs))

BannerSheet == <<".a", "{", "background-image:", "url(", "a", ".jpg", ")", ";", "}">>

UrlPaths(s) ==
    {<<Tok(s, UrlStemPos(s, u)), Tok(s, UrlStemPos(s, u) + 1)>> :
        u \in {v \in 0..(Len(s) - 1) : Tok(s, v) = "url(" /\ UrlStemPos(s, v) + 1 < Len(s)}}

\* a data URI, an absolute http or https URL, or a path that ends in .webp
NeverCandidate(path) ==
    \/ path[1] \in {"data:e", "http://h/d", "https://h/d"}
    \/ path[2] = ".webp"

\* C23: a url() whose path is a data URI, starts with http:// or https://, or
\* already ends in .webp is never recorded as a reference, and no appended
\* rule names such a path or the compact path derived from it.
C23_SkippedPathsNeverRecorded ==
    cssRuns > 0 =>
        /\ \A i \in 1..Len(cssRefs) :
              /\ ~ NeverCandidate(cssRefs[i].original)
              /\ ~ NeverCandidate(<<Tok(cssInput, UrlStemPos(cssInput, cssRefs[i].urlPos)),
                                    Tok(cssInput, UrlStemPos(cssInput, cssRefs[i].urlPos) + 1)>>)
        /\ \A path \in UrlPaths(cssInput) :
              NeverCandidate(path) =>
                 \A q \in UrlPaths(Appended) : q[1] # path[1]

C23_Witness ==
    /\ cssRuns > 0
    /\ cssRefs # << >>
    /\ \E path \in UrlPaths(cssInput) : path[1] = "https://h/d"
    /\ Tok(cssInput, Len(cssInput) - 2) = ";"

(***************************************************************************)
(* The loader in development mode, and on a reference it cannot resolve    *)
(***************************************************************************)

\* C24: in development mode no step of the loader resolves a path, encodes,
\* writes a file, or changes the registry or the tracker, and the source it
\* hands back is the input with the '!webp' suffix removed from the statements
\* that carried it and nothing else changed.
C24_DevelopmentOnlyStrips ==
    [][~isProduction =>
        /\ encodes' = encodes
        /\ writes' = writes
        /\ disk' = disk
        /\ processedImagePaths' = processedImagePaths
        /\ tempWebpFiles' = tempWebpFiles
        /\ transcodes' = transcodes
        /\ ld'[1].pc \in {"idle", "returned"}
        /\ (ld'[1].pc = "returned" /\ ~ld'[1].err) =>
              /\ Len(ld'[1].out) = Len(ld'[1].file.stmts)
              /\ \A i \in 1..Len(ld'[1].out) :
                    /\ ld'[1].res[i] = ""
                    /\ ld'[1].out[i].pat = ld'[1].file.stmts[i].pat
                    /\ ld'[1].out[i].var = ld'[1].file.stmts[i].var
                    /\ ld'[1].out[i].stem = ld'[1].file.stmts[i].stem
                    /\ ld'[1].out[i].ext = ld'[1].file.stmts[i].ext
                    /\ ld'[1].out[i].mark =
                          (ld'[1].file.resource # "js" /\ ld'[1].file.stmts[i].mark)]_vars

\* a development run handed back a file that holds a marked import and an
\* unmarked import of a healthy image that is on disk
C24_Witness ==
    /\ ~isProduction
    /\ Emitted(1)
    /\ Len(ld[1].out) = 2
    /\ ld[1].file.stmts[1].mark /\ ~ld[1].out[1].mark
    /\ ~ld[1].file.stmts[2].mark
    /\ ld[1].out[2] = ld[1].file.stmts[2]
    /\ imgKind[ImageOf(ld[1].file.stmts[2])] = "smallNow"
    /\ existsSync(disk, ImageOf(ld[1].file.stmts[2]))

\* the statements of the file of loader l whose path names no file on disk:
\* the resolver rejects them
Unresolvable(l) ==
    {i \in 1..Len(ld[l].file.stmts) : ~existsSync(disk, ImageOf(ld[l].file.stmts[i]))}

\* C25: in production mode a reference the resolver rejects is recorded with
\* a resolution error, its statement is emitted with the path it had (a
\* '!webp' suffix it carried is removed, as for every marked statement),
\* nothing is converted for it (no conversion begun, no compact file written,
\* nothing added to the registry or the tracker), and every other statement
\* of the file still gets its outcome.
C25_ResolveErrorKeepsPath ==
    \A l \in Loaders :
        (isProduction /\ Emitted(l)) =>
            \A i \in Unresolvable(l) :
                LET st == ld[l].file.stmts[i]
                IN  /\ ld[l].res[i] = "ResolveError"
                    /\ ld[l].out[i] = [st EXCEPT !.mark = FALSE]
                    /\ transcodes[ImageOf(st)] = 0
                    /\ writes[WebpPath(ImageOf(st))] = 0
                    /\ ImageOf(st) \notin processedImagePaths
                    /\ WebpPath(ImageOf(st)) \notin tempWebpFiles
                    /\ \A j \in 1..Len(ld[l].file.stmts) : ld[l].res[j] # ""

(***************************************************************************)
(* The registry after a conversion                                         *)
(***************************************************************************)

Outcomes == {"Smaller", "LargerKept", "LargerSkipped", "AlreadyExists", "Error"}

\* C26: once the conversion of an image has returned, with any outcome, the
\* image is in the registry: the images of a full pass whose task has
\* finished, and, until a build-complete hook runs, the images whose
\* conversion the loader began.
C26_ConvertedPathsRegistered ==
    /\ \A p \in fp.files :
          (task[p].pc = "done" /\ task[p].outcome \in Outcomes) =>
              p \in processedImagePaths
    /\ builds = 0 =>
          \A l \in Loaders : \A i \in 1..Len(ld[l].res) :
              ld[l].res[i] \in Converted =>
                  ImageOf(ld[l].file.stmts[i]) \in processedImagePaths

(***************************************************************************)
(* The end of a full pass                                                  *)
(***************************************************************************)

\* C27: the step that prints the summary, and the stylesheet run it starts,
\* happen only when every task the pass dispatched has come to its end, with a
\* conversion outcome or with an error; no task is still waiting for the codec.
C27_SummaryAfterAllTasks ==
    [][(fp'.phase = "summarised" /\ fp.phase # "summarised") \/ cssRuns' # cssRuns =>
        \A p \in fp.files :
            /\ task[p].pc = "done"
            /\ task[p].outcome \in Outcomes
            /\ task'[p] = task[p]]_vars

\* a pass that dispatched three tasks has printed its summary and rewritten
\* the stylesheet: one task failed, one needed more than one encode
C27_Witness ==
    /\ fp.phase = "summarised"
    /\ cssRuns > 0
    /\ Cardinality(fp.files) = 3
    /\ \E p \in fp.files : task[p].outcome = "Error"
    /\ \E p \in fp.files : task[p].outcome = "Smaller" /\ task[p].s.n > 1

(***************************************************************************)
(* The policy the pipeline runs with                                       *)
(***************************************************************************)

\* C28: the pipeline never converts with an invalid policy: when minQuality
\* is greater than quality, or one of the two lies outside 0..100, startup
\* fails and no encode is ever made.
C28_InvalidPolicyNeverRuns ==
    (\/ sq.minQuality > sq.quality
     \/ sq.quality \notin 0..100
     \/ sq.minQuality \notin 0..100) => sq.s.n = 0

\* C29: a full pass dispatches a task for every jpg, jpeg or png file that is
\* on disk under the output root, whatever the directory it lies in.
C29_EveryRasterDiscovered ==
    fp.phase \in {"running", "summarised"} =>
        \A p \in DistImages :
            (existsSync(disk, p) /\ p.ext \in RasterExtensions) => p \in fp.files

\* C30: no step writes a compact file over one that is on disk, and no step
\* hands a compact file that was on disk before it to the tracker: an image
\* whose compact file exists when it is processed is left as it is, without
\* an encode.
C30_ExistingCompactFileUntouched ==
    [][\A p \in Paths :
          (p.ext = "webp" /\ existsSync(disk, p)) =>
              /\ writes'[p] = writes[p]
              /\ p \in tempWebpFiles' => p \in tempWebpFiles]_vars

(***************************************************************************)
(* The original images                                                     *)
(***************************************************************************)

\* C31: no step of the loader, of the drain of the tracker or of the full
\* pass writes to or deletes a jpg, jpeg or png image of the source tree or of
\* the output tree.
C31_OriginalsPreserved ==
    [][\A p \in Images :
          p.ext \in RasterExtensions =>
              /\ disk'[p] = disk[p]
              /\ writes'[p] = writes[p]]_vars

\* the loader wrote a compact file, the hook deleted it, the full pass wrote
\* the compact file of static/a.jpg, and all the originals are still on disk
C31_Witness ==
    /\ \E p \in SrcImages : writes[WebpPath(p)] > 0 /\ ~existsSync(disk, WebpPath(p))
    /\ \E p \in DistImages : writes[WebpPath(p)] > 0 /\ existsSync(disk, WebpPath(p))
    /\ fp.phase = "summarised"
    /\ \A p \in Images : imgKind[p] # "absent" => disk[p] = ImageSize

(***************************************************************************)
(* The statistics and the order of the tasks                               *)
(***************************************************************************)

\* C32: whatever the order in which the tasks of a pass take their steps and
\* come to their end, the statistics the pass prints are the ones determined
\* by the discovered images, the disk at the start of the pass and the policy:
\* totalFiles is the number of discovered images and the other three are the
\* sums of the contributions of the images.
C32_StatisticsOrderIndependent ==
    (fp.phase = "summarised" /\ fp.passes = 1) =>
        /\ fp.totalFiles = Cardinality(fp.files)
        /\ SummaryOf(fp) = ExpectedSummary(imgKind, fp.files)

\* a pass of three tasks has ended in which two images became smaller, one of
\* them after a second encode, and one was skipped
C32_Witness ==
    /\ fp.phase = "summarised" /\ fp.passes = 1
    /\ fp.totalFiles = 3
    /\ fp.smallerFiles = 2
    /\ fp.skippedFiles = 1
    /\ fp.totalSaved = 2
    /\ \E p \in fp.files : task[p].s.n > 1

(***************************************************************************)
(* Where the edits of the loader land                                      *)
(***************************************************************************)

\* the edit the loader computes for a statement: the suffix removed from a
\* marked statement, the compact extension for a converted one
OwnEdit(st, res) ==
    IF st.mark THEN [st EXCEPT !.mark = FALSE]
    ELSE IF res \in {"Smaller", "LargerKept"} THEN [st EXCEPT !.ext = "webp"]
    ELSE st

\* C33: every statement of the emitted source is either the statement of the
\* input at that position or that statement with its own edit applied: an
\* edit computed for one statement never lands on another one, and nothing
\* else changes.
C33_EditsAtOwnPosition ==
    Emitted(1) =>
        /\ Len(ld[1].out) = Len(ld[1].file.stmts)
        /\ \A i \in 1..Len(ld[1].out) :
              ld[1].out[i] \in {ld[1].file.stmts[i],
                                OwnEdit(ld[1].file.stmts[i], ld[1].res[i])}

(***************************************************************************)
(* What a recorded reference names                                         *)
(***************************************************************************)

DeclTokens == {"background:", "background-image:", "color:"}

\* the property name of the declaration that contains position u
DeclaringProperty(s, u) ==
    Tok(s, Max({p \in 0..u : Tok(s, p) \in DeclTokens}))

\* the selector of the rule block that contains position u
OwnSelector(s, u) == <<Tok(s, StartPos(s, u) - 1)>>

\* C34: every recorded reference carries the selector of the rule block that
\* contains its url() and the property name of the declaration that contains
\* it.
C34_ReferenceNamesOwnRule ==
    cssRuns > 0 =>
        \A i \in 1..Len(cssRefs) :
            /\ cssRefs[i].selector = OwnSelector(cssInput, cssRefs[i].urlPos)
            /\ cssRefs[i].property = DeclaringProperty(cssInput, cssRefs[i].urlPos)


(***************************************************************************)
(* The stylesheet after a full pass                                        *)
(***************************************************************************)

\* the file a path of the stylesheet names: the stylesheet lies in static/
CssFile(path) ==
    [dir |-> <<"static">>, stem |-> path[1],
     ext |-> IF path[2] = ".webp" THEN "webp" ELSE "other"]

\* C35: after a full pass that rewrote the stylesheet, the compact path of
\* every recorded reference, the one its 'supported' rule names, is the path
\* of a compact file that is on disk.
C35_SupportedRuleNamesExistingFile ==
    (fp.phase = "summarised" /\ cssRuns > 0) =>
        \A i \in 1..Len(cssRefs) :
            /\ CssFile(cssRefs[i].webp) \in Paths
            /\ existsSync(disk, CssFile(cssRefs[i].webp))

(***************************************************************************)
(* The policy of the two entry points                                      *)
(***************************************************************************)

\* C36: for every configuration with values in 0..100, 0 included, and every
\* image, the loader and the full pass make the same encode attempts, at the
\* same qualities and in the same order, and take the same decision to write
\* the result or not.
C36_SameEffectivePolicy ==
    (sq.s.done /\ sq.t.done) =>
        /\ sq.s.hist = sq.t.hist
        /\ ShouldPersist(sq.s.size, sq.orig, ConvertOptions(sq).onlySmallerFiles)
             = ShouldPersist(sq.t.size, sq.orig, LoaderOptions(sq).onlySmallerFiles)

\* C37: whatever the file, the mode and the outcome of each reference, an
\* invocation of the loader that has begun comes to invoke the webpack
\* callback, it never invokes it twice, it has invoked it exactly once when
\* it is over, and resolution failures, codec failures and registered paths
\* never make it pass an error
C37_CallbackExactlyOnce ==
    /\ [](/\ ld[1].calls <= 1
          /\ (ld[1].pc = "returned" => ld[1].calls = 1)
          /\ (ld[1].pc \in {"resolve", "encode"} => ld[1].calls = 0)
          /\ ~ld[1].err)
    /\ ((ld[1].pc \in {"resolve", "encode"}) ~> (ld[1].pc = "returned"))

\* a production invocation has met a failing reference and a registered
\* path, and has called back once
C37_Witness ==
    /\ isProduction
    /\ ld[1].pc = "returned"
    /\ ld[1].calls = 1
    /\ \E i \in 1..Len(ld[1].res) : ld[1].res[i] \in {"ResolveError", "Error"}
    /\ \E i \in 1..Len(ld[1].res) : ld[1].res[i] = "Registered"

UniqueNamespaces(ms) ==
    \A i, j \in 1..Len(ms) : i # j => ms[i].namespace # ms[j].namespace

ResolvableDeps(ms) ==
    \A i \in 1..Len(ms) : \A k \in 1..Len(ms[i].deps) :
        \E j \in 1..Len(ms) : ms[j].namespace = ms[i].deps[k]

DependsOn(ms, i, j) ==
    \E k \in 1..Len(ms[i].deps) : ms[i].deps[k] = ms[j].namespace

\* the sets of models each of which depends on a model of the set: the
\* cycles, and what hangs on them
Knots(ms) ==
    {S \in SUBSET (1..Len(ms)) : \A i \in S : \E j \in S : DependsOn(ms, i, j)}

Acyclic(ms) == Knots(ms) = {{}}

\* position of a namespace in the order returned, 0 when it is not there
IndexOf(q, ns) ==
    LET at == {k \in 1..Len(q) : q[k] = ns}
    IN  IF at = {} THEN 0 ELSE Min(at)

\* the models whose dependencies are all among the first k entries of q and
\* which are not among them themselves
Ready(ms, q, k) ==
    {i \in 1..Len(ms) :
        /\ \A n \in 1..k : q[n] # ms[i].namespace
        /\ \A j \in 1..Len(ms) :
              DependsOn(ms, i, j) => \E n \in 1..k : q[n] = ms[j].namespace}

\* C38: for models with unique namespaces, resolvable deps and no cycle the
\* call returns; the order holds every namespace exactly once, every
\* namespace after the ones it depends on, and each entry is the ready
\* namespace of lowest original index
C38_SortsEveryAcyclicSet ==
    (/\ topo.pc \in {"returned", "thrown"}
     /\ UniqueNamespaces(models)
     /\ ResolvableDeps(models)
     /\ Acyclic(models))
    => /\ topo.pc = "returned"
       /\ Len(topo.queue) = Len(models)
       /\ \A i \in 1..Len(models) : IndexOf(topo.queue, models[i].namespace) > 0
       /\ \A i, j \in 1..Len(models) :
             DependsOn(models, i, j)
             => IndexOf(topo.queue, models[j].namespace)
                  < IndexOf(topo.queue, models[i].namespace)
       /\ \A k \in 1..Len(topo.queue) :
             topo.queue[k] = models[Min(Ready(models, topo.queue, k - 1))].namespace

\* the same when no namespace is a property name of Object.prototype
SortsWhenNoInheritedKey ==
    (\A i \in 1..Len(models) : models[i].namespace \notin InheritedKeys)
    => C38_SortsEveryAcyclicSet

\* C39: the call always comes to an end; it returns an order only when no
\* two models share a namespace, every dep names a model and there is no
\* cycle, and throws otherwise; the cycle error names, once each, exactly
\* the namespaces of the models that lie on a cycle or depend on one
C39_ThrowsOnBadInput ==
    /\ ((topo.pc \in {"idle", "loop"}) ~> (topo.pc \in {"returned", "thrown"}))
    /\ [](topo.pc = "returned"
          => /\ UniqueNamespaces(models)
             /\ ResolvableDeps(models)
             /\ Acyclic(models)
             /\ topo.error = NoError)
    /\ [](topo.error.kind = "Circle"
          => LET stuck == UNION Knots(models)
                 names == topo.error.names
             IN  /\ stuck # {}
                 /\ Len(names) = Cardinality(stuck)
                 /\ {names[k] : k \in 1..Len(names)}
                      = {models[i].namespace : i \in stuck}
                 /\ \A k \in 1..Len(names) : IndexOf(topo.queue, names[k]) = 0)

\* a cycle error after one model was placed, naming a model of the cycle
\* and one that only depends on it
C39_Witness ==
    /\ topo.pc = "thrown"
    /\ topo.error.kind = "Circle"
    /\ Len(topo.queue) = 1
    /\ \E i \in 1..Len(models) :
          /\ DependsOn(models, i, i)
          /\ \E j \in 1..Len(models) :
                j # i /\ DependsOn(models, j, i) /\ ~DependsOn(models, i, j)

====
